---- MODULE Spec2Model ----
(***************************************************************************)
(* A model of bootloader/src/pyi_utils.c: environment access, the scratch  *)
(* directory manager, the dynamic-library path stager and the child        *)
(* process launcher.                                                       *)
(*                                                                         *)
(* C strings are sequences of tokens (a token is a path separator, a list  *)
(* separator or a name); the empty string is <<>>, and a NULL pointer is   *)
(* the one-token sequence NULL, which no real string equals.               *)
(*                                                                         *)
(* The module holds four specifications over one set of variables:         *)
(*   SpecEnv    pyi_utils_set_environment / set_dynamic_library_path       *)
(*   SpecTemp   pyi_create_temp_path / pyi_get_temp_path                   *)
(*   SpecRemove pyi_remove_temp_path / remove_one, one system call a step  *)
(*   Spec       the launch: pyi_utils_create_child, signals, teardown      *)
(* Each specification parks the variables of the others at fixed values.   *)
(***************************************************************************)
EXTENDS Integers, Sequences, FiniteSets, TLC

VARIABLES
    build,      \* the platform the bootloader was compiled for
    env,        \* the process environment: variable name -> string or NULL
    status,     \* ARCHIVE_STATUS: has_temp_directory, temppath, homepath
    \* ---- stager
    envPre,     \* the environment when pyi_utils_set_environment was entered
    stagePc,    \* "idle" | "staged"
    stageRc,    \* return value of pyi_utils_set_environment
    \* ---- scratch directory creation
    opt_tmpdir, \* the archive's pyi-runtime-tmpdir option, or NULL
    writable,   \* the directories under which a directory can be created
    dirs,       \* the scratch directories that exist (of any process)
    created,    \* the directories this process created
    tried,      \* the candidate roots the last call tried, in order
    tempCall,   \* the last call's attempts, and the environment before and in it
    tempRet,    \* the last return value of pyi_create_temp_path
    nCalls,     \* calls of pyi_create_temp_path so far
    nLookups,   \* option lookups made by the last call
    nFsOps,     \* directory-creation attempts made by the last call
    \* ---- recursive removal
    present,    \* the filesystem objects that exist
    linkTarget, \* what the symbolic link points to (0: nothing)
    stack,      \* the frames of pyi_remove_temp_path, the innermost last
    rmState,    \* "idle" | "running" | "returned" | "fault"
    removedByUs,\* the objects the traversal unlinked or rmdir'ed
    openedByUs, \* the directories the traversal opened
    deletes,    \* objects a concurrent deleter removed
    \* ---- launch
    ignoreOpt,  \* the archive has the option pyi-bootloader-ignore-signals
    ppc,        \* where the parent is
    pend,       \* how the parent ended: "" | "exit" | "reraise" | "signal" | "fault"
    cpc,        \* where the child is
    pid,        \* fork's return value in the parent
    child_pid,  \* the global child_pid
    wait_rc,    \* waitpid's return value, -1 before it
    rc,         \* the status word waitpid stored
    disp,       \* the parent's disposition of each signal number
    argv_pyi,   \* the owned argument vector, in the parent and in the child
    retval,     \* what pyi_utils_create_child returned to the parent's entry point
    scratch,    \* the scratch directory is on disk
    hist,       \* what happened: signals sent, removals, the child's end
    \* ---- file copy
    copy        \* pyi_copy_file: its streams, buffer, error flag and position

commonVars == <<build, env, status>>
stageVars  == <<envPre, stagePc, stageRc>>
tempVars   == <<opt_tmpdir, writable, dirs, created, tried, tempCall, tempRet,
                nCalls, nLookups, nFsOps>>

rmVars     == <<present, linkTarget, stack, rmState, removedByUs, openedByUs,
                deletes>>

launchVars == <<ignoreOpt, ppc, pend, cpc, pid, child_pid, wait_rc, rc, disp,
                argv_pyi, retval, scratch, hist>>

copyVars   == <<copy>>

vars == <<commonVars, stageVars, tempVars, rmVars, launchVars, copyVars>>

----------------------------------------------------------------------------
(* Strings *)

NULL == <<"NULL">>

PYI_SEP == "/"
PYI_SEPSTR == <<"/">>
EmptyStr == <<>>

\* strlen(s): the number of tokens before the terminator.
strlen(s) == Len(s)

\* strcat(dst, src)
strcat(dst, src) == dst \o src

pyi_strjoin_always_sep(first, sep, second) ==
    LET f == IF first = NULL THEN EmptyStr ELSE first
        p == IF sep = NULL THEN EmptyStr ELSE sep
        s == IF second = NULL THEN EmptyStr ELSE second
    IN  strcat(strcat(f, p), s)

\* pyi_strjoin: first and second joined by sep; sep is used only when both
\* first and second are non-empty; any argument may be NULL.
pyi_strjoin(first, sep, second) ==
    LET first_len  == IF first  # NULL THEN strlen(first)  ELSE 0
        sep_len    == IF sep    # NULL THEN strlen(sep)    ELSE 0
        second_len == IF second # NULL THEN strlen(second) ELSE 0
        r0 == EmptyStr
        r1 == IF first_len # 0 THEN strcat(r0, first) ELSE r0
        r2 == IF sep_len # 0 /\ first_len # 0 /\ second_len # 0
              THEN strcat(r1, sep) ELSE r1
        r3 == IF second_len # 0 THEN strcat(r2, second) ELSE r2
    IN  r3

----------------------------------------------------------------------------
(* Environment access *)

Builds == {"linux", "aix", "darwin", "win32"}
PosixBuilds == {"linux", "aix", "darwin"}

\* HAVE_UNSETENV: the AIX build emulates unset by setting the empty string.
HAVE_UNSETENV(b) == b # "aix"

LoaderVars == {"LD_LIBRARY_PATH", "LD_LIBRARY_PATH_ORIG", "LIBPATH", "LIBPATH_ORIG"}
DyldVars == {"DYLD_FRAMEWORK_PATH", "DYLD_FALLBACK_FRAMEWORK_PATH",
             "DYLD_VERSIONED_FRAMEWORK_PATH", "DYLD_LIBRARY_PATH",
             "DYLD_FALLBACK_LIBRARY_PATH", "DYLD_VERSIONED_LIBRARY_PATH",
             "DYLD_ROOT_PATH"}
TmpVars == {"TMPDIR", "TEMP", "TMP"}
EnvNames == LoaderVars \cup DyldVars \cup TmpVars

\* getenv(3): the value, or NULL when the variable is not in the environment.
getenv(e, variable) == e[variable]

\* A token %NAME% of a value refers to the variable NAME.
RefOf(tok) ==
    CASE tok = "%TEMP%" -> "TEMP"
      [] tok = "%TMP%" -> "TMP"
      [] OTHER -> ""

\* ExpandEnvironmentStringsW: every %NAME% whose variable is defined is
\* replaced by its value; anything else is kept.
RECURSIVE ExpandEnvironmentStringsW(_, _)
ExpandEnvironmentStringsW(e, v) ==
    IF v = <<>> THEN <<>>
    ELSE LET name == RefOf(Head(v))
             head == IF name # "" /\ e[name] # NULL THEN e[name] ELSE <<Head(v)>>
         IN  head \o ExpandEnvironmentStringsW(e, Tail(v))

\* The win32 branch of pyi_getenv: GetEnvironmentVariableW fills buf1 and
\* gives its length (0 for a missing or empty variable);
\* ExpandEnvironmentStringsW fills buf2 and gives its size; wenv is buf1 on
\* both branches.
win32_getenv(e, variable) ==
    LET buf1 == e[variable]
        rc1 == IF buf1 = NULL THEN 0 ELSE strlen(buf1)
    IN  IF rc1 > 0
        THEN LET buf2 == ExpandEnvironmentStringsW(e, buf1)
                 rc2 == strlen(buf2) + 1
             IN  IF rc2 > 0 THEN buf1 ELSE buf1
        ELSE NULL

pyi_getenv_keep_empty(b, e, variable) == getenv(e, variable)

\* pyi_getenv: a copy of the value; NULL when unset or set to the empty
\* string.  On win32 GetEnvironmentVariableW returns 0 for a missing or empty
\* variable, and the value handed on after ExpandEnvironmentStringsW is still
\* buf1, the unexpanded value.
pyi_getenv(b, e, variable) ==
    LET v == IF b = "win32" THEN win32_getenv(e, variable) ELSE getenv(e, variable)
    IN  IF v # NULL /\ strlen(v) > 0 THEN v ELSE NULL

\* setenv(variable, value, true) / _wputenv_s(variable, value)
pyi_setenv(b, e, variable, value) ==
    IF b = "win32" /\ value = EmptyStr
    THEN [e EXCEPT ![variable] = NULL]      \* _wputenv_s with "" removes
    ELSE [e EXCEPT ![variable] = value]

\* unsetenv(variable); setenv(variable, "", true) without HAVE_UNSETENV;
\* SetEnvironmentVariableW(variable, NULL) on win32.
pyi_unsetenv(b, e, variable) ==
    IF b = "win32" \/ HAVE_UNSETENV(b)
    THEN [e EXCEPT ![variable] = NULL]
    ELSE [e EXCEPT ![variable] = EmptyStr]

RECURSIVE UnsetAll(_, _, _)
UnsetAll(b, e, names) ==
    IF names = <<>> THEN e
    ELSE UnsetAll(b, pyi_unsetenv(b, e, Head(names)), Tail(names))

----------------------------------------------------------------------------
(* Dynamic-library path stager *)

env_var(b) == IF b = "aix" THEN "LIBPATH" ELSE "LD_LIBRARY_PATH"
env_var_orig(b) == IF b = "aix" THEN "LIBPATH_ORIG" ELSE "LD_LIBRARY_PATH_ORIG"

set_dynamic_library_path_always_save(b, e, path) ==
    LET orig_path == getenv(e, env_var(b))
        e1 == pyi_setenv(b, e, env_var_orig(b),
                         IF orig_path = NULL THEN EmptyStr ELSE orig_path)
    IN  pyi_setenv(b, e1, env_var(b), pyi_strjoin(path, <<":">>, orig_path))

\* set_dynamic_library_path: the environment it leaves (it returns setenv's
\* rc, 0 here: setenv is not made to fail).
set_dynamic_library_path(b, e, path) ==
    LET orig_path == pyi_getenv(b, e, env_var(b))
        e1 == IF orig_path # NULL
              THEN pyi_setenv(b, e, env_var_orig(b), orig_path)
              ELSE e
        new_path == pyi_strjoin(path, <<":">>, orig_path)
    IN  pyi_setenv(b, e1, env_var(b), new_path)

DyldScrubbed ==
    <<"DYLD_FRAMEWORK_PATH", "DYLD_FALLBACK_FRAMEWORK_PATH",
      "DYLD_VERSIONED_FRAMEWORK_PATH", "DYLD_LIBRARY_PATH",
      "DYLD_FALLBACK_LIBRARY_PATH", "DYLD_VERSIONED_LIBRARY_PATH",
      "DYLD_ROOT_PATH">>

\* The path pyi_utils_set_environment stages: temppath when it is non-empty
\* (onefile), else homepath (onedir).
StagedPath(st) ==
    IF st.temppath # EmptyStr THEN st.temppath ELSE st.homepath

\* pyi_utils_set_environment: the environment it leaves.
pyi_utils_set_environment(b, e, st) ==
    CASE b = "win32"  -> e
      [] b = "darwin" -> UnsetAll(b, e, DyldScrubbed)
      [] OTHER        -> set_dynamic_library_path(b, e, StagedPath(st))

\* Values an inherited variable may have.
EnvValues == { NULL, EmptyStr, <<"/", "sys">>, <<"/", "a", ":", "/", "b">> }
ScratchPaths == { EmptyStr, <<"/", "tmp", "/", "_MEIabc">> }
HomePaths == { <<"/", "opt", "/", "app">>, <<".">> }

NoEnv == [n \in EnvNames |-> NULL]

CopyIdle == copy = <<>>

TempIdle ==
    /\ opt_tmpdir = NULL
    /\ writable = {}
    /\ dirs = {}
    /\ created = {}
    /\ tried = <<>>
    /\ tempCall = <<>>
    /\ tempRet = 0
    /\ nCalls = 0
    /\ nLookups = 0
    /\ nFsOps = 0

LaunchIdle ==
    /\ ignoreOpt = FALSE
    /\ ppc = "idle"
    /\ pend = ""
    /\ cpc = "none"
    /\ pid = 0
    /\ child_pid = 0
    /\ wait_rc = -1
    /\ rc = 0
    /\ disp = <<>>
    /\ argv_pyi = <<>>
    /\ retval = 0
    /\ scratch = FALSE
    /\ hist = <<>>

RmIdle ==
    /\ present = {}
    /\ linkTarget = 0
    /\ stack = <<>>
    /\ rmState = "idle"
    /\ removedByUs = {}
    /\ openedByUs = {}
    /\ deletes = 0

StageIdle ==
    /\ envPre = NoEnv
    /\ stagePc = "idle"
    /\ stageRc = 0

EnvInit ==
    /\ build \in Builds
    /\ \E lv, sv, dv \in EnvValues :
          env = [NoEnv EXCEPT ![env_var(build)] = lv,
                              ![env_var_orig(build)] = sv,
                              !["DYLD_LIBRARY_PATH"] = dv]
    /\ \E tp \in ScratchPaths, hp \in HomePaths :
          status = [has_temp_directory |-> (tp # EmptyStr),
                    temppath |-> tp, homepath |-> hp]
    /\ StageIdle
    /\ TempIdle
    /\ CopyIdle
    /\ RmIdle
    /\ LaunchIdle

\* The entry point stages the library path once, before the launch.
SetEnvironment ==
    /\ stagePc = "idle"
    /\ envPre' = env
    /\ env' = pyi_utils_set_environment(build, env, status)
    /\ stageRc' = 0
    /\ stagePc' = "staged"
    /\ UNCHANGED <<build, status, tempVars, copyVars, rmVars, launchVars>>

EnvNext == SetEnvironment

SpecEnv == EnvInit /\ [][EnvNext]_vars

----------------------------------------------------------------------------
(* Scratch directory creation *)

MaxAttempts_six == 5 + 1

\* The retry bound of the win32 loop, for (i = 0; i < 5; i++).
MaxAttempts == 5
\* Calls of pyi_create_temp_path the entry point is let make.
MaxCalls == 2

Last(s) == s[Len(s)]
Front(s) == SubSeq(s, 1, Len(s) - 1)

\* The directory a path string names: a trailing separator dropped, a
\* relative path resolved against the working directory, which is "/".
DirOf(p) ==
    LET q == IF Len(p) > 1 /\ Last(p) = PYI_SEP THEN Front(p) ELSE p
    IN  IF Head(q) = PYI_SEP THEN q ELSE PYI_SEPSTR \o q

\* The names mkdtemp substitutes for the XXXXXX of its template, in the order
\* it tries them.
MeiNames == <<"_MEI1aaaaa", "_MEI2bbbbb">>
\* The names _wtempnam generates from the prefix _MEI<pid>, one per call.
WinNames == <<"_MEI42a", "_MEI42b", "_MEI42c", "_MEI42d", "_MEI42e", "_MEI42f">>

\* The directory a path's last component lives in: the path up to its last
\* separator, the working directory when it has none.
ParentOf(p) ==
    LET seps == { i \in 1..Len(p) : p[i] = PYI_SEP }
    IN  IF seps = {} THEN PYI_SEPSTR
        ELSE DirOf(SubSeq(p, 1, CHOOSE i \in seps : \A j \in seps : j <= i))

\* mkdtemp(template): creates a directory of a name not in use, the
\* template's XXXXXX replaced, and rewrites the template to it; fails when
\* the directory the name lives in cannot be written to or no name is free.
mkdtemp(template, w, d) ==
    LET stem == Front(template)
        free == { i \in 1..Len(MeiNames) : DirOf(stem \o <<MeiNames[i]>>) \notin d }
    IN  IF ParentOf(template) \in w /\ free # {}
        THEN LET i == CHOOSE k \in free : \A j \in free : k <= j
                 made == stem \o <<MeiNames[i]>>
             IN  [ok |-> TRUE, buff |-> made, dirs |-> d \cup {DirOf(made)}]
        ELSE [ok |-> FALSE, buff |-> template, dirs |-> d]

pyi_test_temp_path_no_sep(buff, w, d) ==
    mkdtemp(strcat(buff, <<"_MEIXXXXXX">>), w, d)

\* pyi_test_temp_path: appends the separator when buff does not end with it,
\* then the template, and calls mkdtemp.
pyi_test_temp_path(buff, w, d) ==
    LET b1 == IF buff[strlen(buff)] # PYI_SEP THEN strcat(buff, PYI_SEPSTR)
              ELSE buff
        b2 == strcat(b1, <<"_MEIXXXXXX">>)
    IN  mkdtemp(b2, w, d)

\* What a call of pyi_get_temp_path has done so far.
TempStart(buff, e, d) ==
    [ok |-> FALSE, buff |-> buff, env |-> e, dirs |-> d, tried |-> <<>>, fsops |-> 0,
     attempts |-> <<>>, during |-> e]

\* strcpy(buff, cand); pyi_test_temp_path(buff)
TestCandidate(ts, cand, w) ==
    LET r == pyi_test_temp_path(cand, w, ts.dirs)
    IN  [ts EXCEPT !.ok = r.ok, !.buff = r.buff, !.dirs = r.dirs,
                   !.tried = Append(ts.tried, DirOf(cand)),
                   !.fsops = ts.fsops + 1]

envname == <<"TMPDIR", "TEMP", "TMP">>
dirname == << <<"/", "tmp">>, <<"/", "var", "/", "tmp">>, <<"/", "usr", "/", "tmp">> >>

\* for (i = 0; envname[i]; i++)
RECURSIVE EnvLoop(_, _, _, _)
EnvLoop(b, i, ts, w) ==
    IF i > Len(envname) THEN ts
    ELSE LET p == pyi_getenv(b, ts.env, envname[i])
         IN  IF p # NULL
             THEN LET t == TestCandidate(ts, p, w)
                  IN  IF t.ok THEN t ELSE EnvLoop(b, i + 1, t, w)
             ELSE EnvLoop(b, i + 1, ts, w)

\* for (i = 0; dirname[i]; i++)
RECURSIVE DirLoop(_, _, _)
DirLoop(i, ts, w) ==
    IF i > Len(dirname) THEN ts
    ELSE LET t == TestCandidate(ts, dirname[i], w)
         IN  IF t.ok THEN t ELSE DirLoop(i + 1, t, w)

posix_get_temp_path_fallback(b, buff, runtime_tmpdir, e, w, d) ==
    LET ts0 == TempStart(buff, e, d)
        o == IF runtime_tmpdir # NULL THEN TestCandidate(ts0, runtime_tmpdir, w)
             ELSE ts0
        a == IF o.ok THEN o ELSE EnvLoop(b, 1, o, w)
    IN  IF a.ok THEN a ELSE DirLoop(1, a, w)

\* pyi_get_temp_path, the POSIX version.
posix_get_temp_path(b, buff, runtime_tmpdir, e, w, d) ==
    LET ts0 == TempStart(buff, e, d)
    IN  IF runtime_tmpdir # NULL
        THEN TestCandidate(ts0, runtime_tmpdir, w)
        ELSE LET a == EnvLoop(b, 1, ts0, w)
             IN  IF a.ok THEN a ELSE DirLoop(1, a, w)

\* pyi_path_fullpath: the absolute form of a path.
pyi_path_fullpath(p) == DirOf(p)

WindowsDir == <<"/", "windows">>

\* GetTempPathW: the first of TMP and TEMP that is set, else the Windows
\* directory.
GetTempPathW(e) ==
    IF e["TMP"] # NULL /\ e["TMP"] # EmptyStr THEN e["TMP"]
    ELSE IF e["TEMP"] # NULL /\ e["TEMP"] # EmptyStr THEN e["TEMP"]
    ELSE WindowsDir

\* One pass of the win32 loop and the passes after it: _wtempnam generates
\* the i-th name and _wmkdir creates it, unless the directory cannot be
\* written to or another process took the name first (the first `lost`
\* attempts).
RECURSIVE WinLoop(_, _, _, _, _)
WinLoop(i, ts, root, w, lost) ==
    IF i > MaxAttempts THEN ts
    ELSE LET wchar_ret == DirOf(root) \o PYI_SEPSTR \o <<WinNames[i]>>
             made == DirOf(root) \in w /\ i > lost
             a == Append(ts.attempts, [name |-> wchar_ret, made |-> made])
             t == [ts EXCEPT !.fsops = ts.fsops + 1,
                             !.attempts = a,
                             !.dirs = ts.dirs \cup {wchar_ret}]
         IN  IF made
             THEN [t EXCEPT !.ok = TRUE, !.buff = wchar_ret]
             ELSE WinLoop(i + 1,
                          IF DirOf(root) \in w THEN t
                          ELSE [ts EXCEPT !.fsops = ts.fsops + 1, !.attempts = a],
                          root, w, lost)

win_restore_tmp_never(b, e, runtime_tmpdir, original_tmpdir) == e

\* "Restore TMP to what it was"
win_restore_tmp(b, e, runtime_tmpdir, original_tmpdir) ==
    IF runtime_tmpdir # NULL
    THEN IF original_tmpdir # NULL
         THEN pyi_setenv(b, e, "TMP", original_tmpdir)
         ELSE pyi_unsetenv(b, e, "TMP")
    ELSE e

\* pyi_get_temp_path, the win32 version.
win_get_temp_path(b, buffer, runtime_tmpdir, e, w, d, lost) ==
    LET original_tmpdir == pyi_getenv(b, e, "TMP")
        e1 == IF runtime_tmpdir # NULL
              THEN pyi_setenv(b, e, "TMP", pyi_path_fullpath(runtime_tmpdir))
              ELSE e
        wchar_buffer == GetTempPathW(e1)
        ts0 == [TempStart(buffer, e1, d) EXCEPT !.tried = <<DirOf(wchar_buffer)>>]
        r == WinLoop(1, ts0, wchar_buffer, w, lost)
    IN  [r EXCEPT !.during = e1, !.env = win_restore_tmp(b, e1, runtime_tmpdir, original_tmpdir)]

pyi_get_temp_path(b, buff, runtime_tmpdir, e, w, d, lost) ==
    IF b = "win32"
    THEN win_get_temp_path(b, buff, runtime_tmpdir, e, w, d, lost)
    ELSE posix_get_temp_path(b, buff, runtime_tmpdir, e, w, d)

\* pyi_arch_get_option(status, "pyi-runtime-tmpdir")
pyi_arch_get_option_tmpdir == opt_tmpdir

NeedsCreation_always(st) == TRUE

\* if (status->has_temp_directory != true)
NeedsCreation(st) == st.has_temp_directory # TRUE

\* pyi_create_temp_path(status), with the races the win32 loop loses.
CreateTempPath(lost) ==
    /\ nCalls < MaxCalls
    /\ tempRet = 0
    /\ nCalls' = nCalls + 1
    /\ IF NeedsCreation(status)
       THEN LET runtime_tmpdir == pyi_arch_get_option_tmpdir
                r == pyi_get_temp_path(build, status.temppath, runtime_tmpdir,
                                       env, writable, dirs, lost)
            IN  /\ nLookups' = 1
                /\ nFsOps' = r.fsops
                /\ tried' = r.tried
                /\ tempCall' = [attempts |-> r.attempts, before |-> env,
                                during |-> r.during]
                /\ env' = r.env
                /\ dirs' = r.dirs
                /\ created' = IF r.ok THEN created \cup {DirOf(r.buff)} ELSE created
                /\ status' = [status EXCEPT !.temppath = r.buff,
                                            !.has_temp_directory = r.ok]
                /\ tempRet' = IF r.ok THEN 0 ELSE -1
       ELSE /\ nLookups' = 0
            /\ nFsOps' = 0
            /\ tried' = <<>>
            /\ tempCall' = [attempts |-> <<>>, before |-> env, during |-> env]
            /\ tempRet' = 0
            /\ UNCHANGED <<env, dirs, created, status>>
    /\ UNCHANGED <<build, opt_tmpdir, writable, stageVars, rmVars, launchVars,
                   copyVars>>

TmpdirValues == { NULL, EmptyStr, <<"/", "e", "/">> }
TempValues == { NULL, <<"/", "f">> }
TmpValues == { NULL, EmptyStr, <<"/", "g">> }
OverrideValues == { NULL, <<"/", "o">>, <<"o", "/">> }
\* The directories a configuration names: the values of the option and of
\* the variables, and the platform's fixed directories.  No other directory
\* is ever tried, so only these are let be writable or not.
NamedDirs(b, e, o) ==
    { DirOf(v) : v \in ({o} \cup { e[n] : n \in TmpVars }) \ {NULL, EmptyStr} }
        \cup (IF b = "win32" THEN {WindowsDir}
              ELSE { dirname[i] : i \in 1..Len(dirname) })
ForeignDirs == { {}, { <<"/", "tmp", "/", "_MEI1aaaaa">> } }

TempInit ==
    /\ build \in {"linux", "win32"}
    /\ \E a \in TmpdirValues, b \in TempValues, c \in TmpValues :
          env = [NoEnv EXCEPT !["TMPDIR"] = a, !["TEMP"] = b, !["TMP"] = c]
    /\ status = [has_temp_directory |-> FALSE, temppath |-> EmptyStr,
                 homepath |-> <<"/", "opt", "/", "app">>]
    /\ opt_tmpdir \in OverrideValues
    /\ writable \in SUBSET NamedDirs(build, env, opt_tmpdir)
    /\ dirs \in ForeignDirs
    /\ created = {}
    /\ tried = <<>>
    /\ tempCall = <<>>
    /\ tempRet = 0
    /\ nCalls = 0
    /\ nLookups = 0
    /\ nFsOps = 0
    /\ StageIdle
    /\ RmIdle
    /\ LaunchIdle
    /\ CopyIdle

TempNext ==
    \E lost \in 0..MaxAttempts :
        /\ (build # "win32" => lost = 0)
        /\ CreateTempPath(lost)

SpecTemp == TempInit /\ [][TempNext]_vars

----------------------------------------------------------------------------
(* Recursive removal, the POSIX version, one system call a step *)

\* The filesystem objects of the model: 1 the scratch root, 2 a file and 3 a
\* subdirectory in it, 4 a file and 6 a directory in the subdirectory, 5 a
\* symbolic link in the root; 7 a directory outside the tree and 8 a file in
\* it.  A path is the sequence of the names walked, an object's number being
\* its name.
Kind == <<"dir", "file", "dir", "file", "link", "dir", "dir", "file">>
Parent == <<0, 1, 1, 3, 1, 3, 0, 7>>
Objects == 1..Len(Kind)
TreeNodes == {1, 2, 3, 4, 5, 6}
OutsideNodes == {7, 8}
RootPath == <<1>>
LinkTargets == {0, 2, 3, 7}
\* The self and parent entries readdir returns, "." and "..".
PseudoEntries == {-1, -2}
\* Removals the concurrent deleter is let make.
MaxDeletes == 2

Children(n) == { c \in present : Parent[c] = n }

\* What a name denotes once a symbolic link is followed; 0 when the link
\* dangles.
Deref(n) ==
    IF Kind[n] = "link"
    THEN IF linkTarget # 0 /\ linkTarget \in present THEN linkTarget ELSE 0
    ELSE n

\* Path resolution: each component is looked up in the directory the
\* components before it lead to, symbolic links followed on the way.
RECURSIVE ResolveFrom(_, _, _)
ResolveFrom(cur, path, i) ==
    IF i > Len(path) THEN cur
    ELSE LET d == Deref(cur)
         IN  IF d = 0 THEN 0
             ELSE IF Kind[d] # "dir" \/ path[i] \notin present \/ Parent[path[i]] # d
             THEN 0
             ELSE ResolveFrom(path[i], path, i + 1)

\* The object a path names, its last component not followed; 0 when none.
lstatNode(path) ==
    IF path[1] \in present /\ Parent[path[1]] = 0
    THEN ResolveFrom(path[1], path, 2) ELSE 0

\* stat(path): the object a path leads to, symbolic links followed.
statNode(path) ==
    LET n == lstatNode(path) IN IF n = 0 THEN 0 ELSE Deref(n)

Top == stack[Len(stack)]
SetTop(f) == [stack EXCEPT ![Len(stack)] = f]
\* pyi_remove_temp_path(dir) entered: fnm is dir with the separator, nothing
\* opened yet.
NewFrame(dir) == [dir |-> dir, pc |-> "opendir", ds |-> 0, seen |-> {}, cur |-> 0]

\* ds = opendir(dir); NULL (0) when dir is no directory.
OpenDir ==
    /\ rmState = "running"
    /\ Top.pc = "opendir"
    /\ LET n == statNode(Top.dir)
           ds == IF n # 0 /\ Kind[n] = "dir" THEN n ELSE 0
       IN  /\ stack' = SetTop([Top EXCEPT !.ds = ds, !.pc = "readdir"])
           /\ openedByUs' = openedByUs \cup ({ds} \ {0})
    /\ UNCHANGED <<present, linkTarget, rmState, removedByUs, deletes>>
    /\ UNCHANGED <<commonVars, stageVars, tempVars, copyVars, launchVars>>

\* finfo = readdir(ds): an entry not returned yet, or NULL at the end.  With
\* ds NULL the call is undefined: it faults, or fails and returns NULL.
ReadDir ==
    /\ rmState = "running"
    /\ Top.pc = "readdir"
    /\ IF Top.ds = 0
       THEN \/ /\ rmState' = "fault"
               /\ UNCHANGED stack
            \/ /\ stack' = SetTop([Top EXCEPT !.pc = "closedir"])
               /\ UNCHANGED rmState
       ELSE LET entries == IF Top.ds \in present
                           THEN Children(Top.ds) \cup PseudoEntries ELSE {}
                avail == entries \ Top.seen
            IN  /\ UNCHANGED rmState
                /\ IF avail = {}
                   THEN stack' = SetTop([Top EXCEPT !.pc = "closedir"])
                   ELSE \E e \in avail :
                           stack' = SetTop([Top EXCEPT !.cur = e,
                                               !.seen = Top.seen \cup {e},
                                               !.pc = "remove_one"])
    /\ UNCHANGED <<present, linkTarget, removedByUs, openedByUs, deletes>>
    /\ UNCHANGED <<commonVars, stageVars, tempVars, copyVars, launchVars>>

\* remove_one up to its stat: "." and ".." are skipped; a name stat fails on
\* is skipped; a directory is recursed into; anything else goes to unlink.
RemoveOneStat ==
    /\ rmState = "running"
    /\ Top.pc = "remove_one"
    /\ IF Top.cur \in PseudoEntries
       THEN stack' = SetTop([Top EXCEPT !.pc = "readdir"])
       ELSE LET pnm == Top.dir \o <<Top.cur>>
                n == statNode(pnm)
            IN  IF n = 0
                THEN stack' = SetTop([Top EXCEPT !.pc = "readdir"])
                ELSE IF Kind[n] = "dir"
                THEN stack' = Append(SetTop([Top EXCEPT !.pc = "readdir"]),
                                     NewFrame(pnm))
                ELSE stack' = SetTop([Top EXCEPT !.pc = "unlink"])
    /\ UNCHANGED <<present, linkTarget, rmState, removedByUs, openedByUs, deletes>>
    /\ UNCHANGED <<commonVars, stageVars, tempVars, copyVars, launchVars>>

\* unlink(pnm): removes the name itself, a symbolic link included; fails on a
\* directory and on a name that is gone.
Unlink ==
    /\ rmState = "running"
    /\ Top.pc = "unlink"
    /\ LET n == lstatNode(Top.dir \o <<Top.cur>>)
       IN  IF n # 0 /\ Kind[n] # "dir"
           THEN /\ present' = present \ {n}
                /\ removedByUs' = removedByUs \cup {n}
           ELSE UNCHANGED <<present, removedByUs>>
    /\ stack' = SetTop([Top EXCEPT !.pc = "readdir"])
    /\ UNCHANGED <<linkTarget, rmState, openedByUs, deletes>>
    /\ UNCHANGED <<commonVars, stageVars, tempVars, copyVars, launchVars>>

\* closedir(ds); undefined with ds NULL: it faults, or fails.
CloseDir ==
    /\ rmState = "running"
    /\ Top.pc = "closedir"
    /\ \/ /\ Top.ds = 0
          /\ rmState' = "fault"
          /\ UNCHANGED stack
       \/ /\ stack' = SetTop([Top EXCEPT !.pc = "rmdir"])
          /\ UNCHANGED rmState
    /\ UNCHANGED <<present, linkTarget, removedByUs, openedByUs, deletes>>
    /\ UNCHANGED <<commonVars, stageVars, tempVars, copyVars, launchVars>>

\* rmdir(dir) and the return: removes an empty directory; fails on a
\* symbolic link, on a directory that is not empty and on a name that is gone.
Rmdir ==
    /\ rmState = "running"
    /\ Top.pc = "rmdir"
    /\ LET n == lstatNode(Top.dir)
       IN  IF n # 0 /\ Kind[n] = "dir" /\ Children(n) = {}
           THEN /\ present' = present \ {n}
                /\ removedByUs' = removedByUs \cup {n}
           ELSE UNCHANGED <<present, removedByUs>>
    /\ stack' = SubSeq(stack, 1, Len(stack) - 1)
    /\ rmState' = IF Len(stack) = 1 THEN "returned" ELSE "running"
    /\ UNCHANGED <<linkTarget, openedByUs, deletes>>
    /\ UNCHANGED <<commonVars, stageVars, tempVars, copyVars, launchVars>>

\* Another process removes a file, a link or an empty directory of the tree
\* while the traversal runs.
Deleter ==
    /\ rmState = "running"
    /\ deletes < MaxDeletes
    /\ \E n \in present \cap TreeNodes :
          /\ Children(n) = {}
          /\ present' = present \ {n}
    /\ deletes' = deletes + 1
    /\ UNCHANGED <<linkTarget, stack, rmState, removedByUs, openedByUs>>
    /\ UNCHANGED <<commonVars, stageVars, tempVars, copyVars, launchVars>>

\* The trees the removal is started on: any set of objects in which every
\* object's directory exists; the root may be gone already (a second
\* teardown).
RmInit ==
    /\ build = "linux"
    /\ env = NoEnv
    /\ status = [has_temp_directory |-> TRUE, temppath |-> <<"/", "tmp", "/", "_MEIabc">>,
                 homepath |-> <<"/", "opt", "/", "app">>]
    /\ present \in { s \in SUBSET Objects :
                        /\ \A n \in s : Parent[n] = 0 \/ Parent[n] \in s
                        /\ 7 \in s /\ 8 \in s }
    /\ linkTarget \in (IF 5 \in present THEN LinkTargets ELSE {0})
    /\ stack = <<NewFrame(RootPath)>>
    /\ rmState = "running"
    /\ removedByUs = {}
    /\ openedByUs = {}
    /\ deletes = 0
    /\ StageIdle
    /\ TempIdle
    /\ CopyIdle
    /\ LaunchIdle

RmNext ==
    \/ OpenDir
    \/ ReadDir
    \/ RemoveOneStat
    \/ Unlink
    \/ CloseDir
    \/ Rmdir
    \/ Deleter

SpecRemove == RmInit /\ [][RmNext]_vars

----------------------------------------------------------------------------
(* The launch: pyi_utils_create_child (POSIX), the signals, the teardown *)

\* const size_t num_signals = 65
num_signals == 65
SIGCHLD == 17
SIGCLD == 17
WNOHANG == 1
\* Signals delivered to the parent in one run.
MaxSignals == 2

\* SIGKILL and SIGSTOP: signal() refuses them, as it refuses 0.
Uncatchable == {0, 9, 19}
\* Signals whose default action does not end the process: SIGCHLD, SIGCONT,
\* the stop signals, SIGURG and SIGWINCH.
NotFatalByDefault == {17, 18, 19, 20, 21, 22, 23, 28}
\* Signals whose default action also dumps core.
CoreSignals == {3, 4, 6, 7, 8, 11}
\* The signals the model delivers to the parent, and those that end the child.
DeliveredSignals == {9, 15, 28}
TermSignals == {2, 6, 9, 15}
ExitCodes == 0..255
ChildPid == 4242

\* The status word the kernel stores for a normal exit and for a death by
\* signal.
W_EXITCODE(ret, sig) == ret * 256 + sig
W_SIGNALED(sig) == sig + (IF sig \in CoreSignals THEN 128 ELSE 0)

WEXITSTATUS_raw(st) == st

WTERMSIG_raw(st) == st

\* <sys/wait.h>
WIFEXITED(st) == (st % 128) = 0
WEXITSTATUS(st) == (st \div 256) % 256
WIFSIGNALED(st) == (st % 128) \notin {0, 127}
WTERMSIG(st) == st % 128

signal_handler_group(cp, signum) == [pid |-> 0, sig |-> signum]

\* _signal_handler: kill(child_pid, signum), as the call it makes.
signal_handler(cp, signum) == [pid |-> cp, sig |-> signum]

\* The dispositions after the loop "signal(signum, handler)" over every
\* signum below num_signals but SIGCHLD/SIGCLD.
InstallAll(d, handler) ==
    [signum \in 0..(num_signals - 1) |->
        IF signum # SIGCHLD /\ signum # SIGCLD /\ signum \notin Uncatchable
        THEN handler ELSE d[signum]]

RestoreAll_none(d) == d

\* The dispositions after the loop "signal(signum, SIG_DFL)".
RestoreAll(d) ==
    [signum \in 0..(num_signals - 1) |->
        IF signum \notin Uncatchable THEN "SIG_DFL" ELSE d[signum]]

WaitOptions_nohang(b) == WNOHANG

\* signal() of the BSD kind restarts a system call a handler interrupted;
\* signal() of the System V kind (AIX) makes the call fail with EINTR.
signal_restarts(b) == b # "aix"

\* The options of the waitpid call: 0, a blocking wait.
WaitOptions(b) == 0

ChildTerminated == cpc \in {"exited", "signaled"}
ParentAlive == ppc \notin {"idle", "ended"}

LaunchInit ==
    /\ build \in {"linux", "aix"}
    /\ env = NoEnv
    /\ \E onefile \in BOOLEAN :
          /\ status = [has_temp_directory |-> onefile,
                       temppath |-> IF onefile THEN <<"/", "tmp", "/", "_MEI1aaaaa">>
                                    ELSE EmptyStr,
                       homepath |-> <<"/", "opt", "/", "app">>]
          /\ scratch = onefile
    /\ ignoreOpt \in BOOLEAN
    /\ ppc = "create_child"
    /\ pend = ""
    /\ cpc = "none"
    /\ pid = 0
    /\ child_pid = 0
    /\ wait_rc = -1
    /\ rc = 0
    /\ disp = [signum \in 0..(num_signals - 1) |-> "SIG_DFL"]
    /\ argv_pyi = [parent |-> "unset", child |-> "unset"]
    /\ retval = 0
    /\ hist = [kills |-> {}, ignored |-> {}, delivered |-> 0, removals |-> 0,
               teardownAt |-> "", cexit |-> -1, csig |-> 0, waitFailed |-> FALSE,
               intr |-> FALSE, raised |-> 0, last |-> 0, waits |-> 0,
               children |-> 0, cvars |-> <<>>, cret |-> -1, staleKills |-> {}]
    /\ StageIdle
    /\ TempIdle
    /\ CopyIdle
    /\ RmIdle

LaunchFrame == UNCHANGED <<commonVars, stageVars, tempVars, copyVars, rmVars, ignoreOpt>>

\* The argument vector is copied and fork() is called; it fails (pid < 0,
\* goto cleanup) or leaves a child in the child branch.
Fork ==
    /\ ppc = "create_child"
    /\ \/ /\ pid' = -1
          /\ ppc' = "cleanup"
          /\ argv_pyi' = [argv_pyi EXCEPT !.parent = "alloc"]
          /\ UNCHANGED cpc
          /\ UNCHANGED hist
       \/ /\ pid' = ChildPid
          /\ ppc' = "forked"
          /\ cpc' = "branch"
          /\ argv_pyi' = [parent |-> "alloc", child |-> "alloc"]
          /\ hist' = [hist EXCEPT
                        !.children = hist.children + 1,
                        !.cvars = [child_pid |-> child_pid, wait_rc |-> wait_rc,
                                   rc |-> rc, disp |-> disp, waits |-> hist.waits]]
    /\ UNCHANGED <<pend, child_pid, wait_rc, rc, disp, retval, scratch>>
    /\ LaunchFrame

\* child_pid = pid, and the handler is chosen from the option.
SetChildPid ==
    /\ ppc = "forked"
    /\ child_pid' = pid
    /\ ppc' = "install"
    /\ UNCHANGED <<pend, cpc, pid, wait_rc, rc, disp, argv_pyi, retval, scratch, hist>>
    /\ LaunchFrame

\* for (signum = 0; signum < num_signals; ++signum) signal(signum, handler)
InstallHandlers ==
    /\ ppc = "install"
    /\ disp' = InstallAll(disp, IF ignoreOpt THEN "_ignoring_signal_handler"
                                ELSE "_signal_handler")
    /\ ppc' = "wait"
    /\ UNCHANGED <<pend, cpc, pid, child_pid, wait_rc, rc, argv_pyi, retval, scratch, hist>>
    /\ LaunchFrame

\* wait_rc = waitpid(child_pid, &rc, options): the terminated child is reaped
\* and its status stored; with WNOHANG a running child gives 0 at once; a
\* blocking wait on a running child stays blocked.
Wait ==
    /\ ppc = "wait"
    /\ \/ /\ ChildTerminated
          /\ wait_rc' = child_pid
          /\ rc' = IF cpc = "exited" THEN W_EXITCODE(hist.cexit, 0)
                   ELSE W_SIGNALED(hist.csig)
          /\ cpc' = "reaped"
       \/ /\ ~ChildTerminated
          /\ WaitOptions(build) = WNOHANG
          /\ wait_rc' = 0
          /\ UNCHANGED <<rc, cpc>>
    /\ ppc' = "restore"
    /\ hist' = [hist EXCEPT !.waits = hist.waits + 1]
    /\ UNCHANGED <<pend, pid, child_pid, disp, argv_pyi, retval, scratch>>
    /\ LaunchFrame

\* waitpid fails, wait_rc < 0 and rc is left as it was: with EINTR when a
\* handler ran during the wait and signal() does not restart the call (the
\* child is as it was), or with ECHILD when the child has terminated and its
\* status was discarded (SIGCHLD inherited as ignored, which the loop over
\* the signals leaves alone).
WaitFail ==
    /\ ppc = "wait"
    /\ \/ /\ hist.intr
          /\ ~signal_restarts(build)
          /\ ~ChildTerminated
          /\ UNCHANGED cpc
       \/ /\ ChildTerminated
          /\ cpc' = "reaped"
    /\ wait_rc' = -1
    /\ hist' = [hist EXCEPT !.waitFailed = TRUE, !.waits = hist.waits + 1]
    /\ ppc' = "restore"
    /\ UNCHANGED <<pend, pid, child_pid, rc, disp, argv_pyi, retval, scratch>>
    /\ LaunchFrame

\* for (signum = 0; signum < num_signals; ++signum) signal(signum, SIG_DFL)
RestoreHandlers ==
    /\ ppc = "restore"
    /\ disp' = RestoreAll(disp)
    /\ ppc' = "cleanup"
    /\ UNCHANGED <<pend, cpc, pid, child_pid, wait_rc, rc, argv_pyi, retval, scratch, hist>>
    /\ LaunchFrame

free_nothing(m) == m

\* free() of the duplicated strings and of the array: storage that is
\* allocated becomes freed; freeing what is already freed is an error.
free(m) == IF m = "alloc" THEN "freed" ELSE "double-free"

\* cleanup: the argument vector is freed.
Cleanup ==
    /\ ppc = "cleanup"
    /\ argv_pyi' = [argv_pyi EXCEPT !.parent = free(argv_pyi.parent)]
    /\ ppc' = "return"
    /\ UNCHANGED <<pend, cpc, pid, child_pid, wait_rc, rc, disp, retval, scratch, hist>>
    /\ LaunchFrame

WaitFailed_never(w) == FALSE

\* if (wait_rc < 0)
WaitFailed(w) == w < 0

\* raise(sig) ends the process when sig is a signal number, its disposition
\* is the default and the default action is to terminate; otherwise raise
\* comes back.
Fatal(sig, d) ==
    /\ sig \in DOMAIN d
    /\ sig # 0
    /\ d[sig] = "SIG_DFL"
    /\ sig \notin NotFatalByDefault

\* The end of pyi_utils_create_child: 1 when the wait failed or was skipped,
\* the exit status of a child that exited, and for a child a signal ended
\* raise() of that signal, which ends the parent under the default
\* disposition.
Return ==
    /\ ppc = "return"
    /\ IF WaitFailed(wait_rc)
       THEN /\ retval' = 1
            /\ ppc' = "returned"
            /\ UNCHANGED <<pend, hist>>
       ELSE IF WIFEXITED(rc)
       THEN /\ retval' = WEXITSTATUS(rc)
            /\ ppc' = "returned"
            /\ UNCHANGED <<pend, hist>>
       ELSE IF WIFSIGNALED(rc) /\ Fatal(WTERMSIG(rc), disp)
       THEN /\ ppc' = "ended"
            /\ pend' = "reraise"
            /\ hist' = [hist EXCEPT !.raised = WTERMSIG(rc)]
            /\ UNCHANGED retval
       ELSE /\ retval' = 1
            /\ ppc' = "returned"
            /\ UNCHANGED <<pend, hist>>
    /\ UNCHANGED <<cpc, pid, child_pid, wait_rc, rc, disp, argv_pyi, scratch>>
    /\ LaunchFrame

\* cleanUp(status) in the process whose child state is `at`: temppath, when
\* not empty, is removed with all it holds.  Removing a path that is gone is
\* undefined (readdir of a NULL stream): it faults, or does nothing.
cleanUp(faults) ==
    IF status.temppath # EmptyStr
    THEN IF scratch
         THEN [scratch |-> FALSE, removed |-> 1, fault |-> FALSE]
         ELSE [scratch |-> FALSE, removed |-> 0, fault |-> faults]
    ELSE [scratch |-> scratch, removed |-> 0, fault |-> FALSE]

\* The parent's entry point, back from pyi_utils_create_child, tears the
\* scratch directory down.
MainCleanup ==
    /\ ppc = "returned"
    /\ \E faults \in (IF build = "win32" THEN {FALSE} ELSE BOOLEAN) :
          LET r == cleanUp(faults)
          IN  /\ scratch' = r.scratch
              /\ hist' = [hist EXCEPT !.removals = hist.removals + r.removed,
                                      !.teardownAt = cpc]
              /\ IF r.fault
                 THEN ppc' = "ended" /\ pend' = "fault"
                 ELSE ppc' = "cleaned" /\ UNCHANGED pend
    /\ UNCHANGED <<cpc, pid, child_pid, wait_rc, rc, disp, argv_pyi, retval>>
    /\ LaunchFrame

\* The parent's entry point returns what pyi_utils_create_child returned.
MainExit ==
    /\ ppc = "cleaned"
    /\ ppc' = "ended"
    /\ pend' = "exit"
    /\ UNCHANGED <<cpc, pid, child_pid, wait_rc, rc, disp, argv_pyi, retval, scratch, hist>>
    /\ LaunchFrame

\* The child branch: set_systemd_env and execvp, which replaces the image
\* ("app") or fails and goes to cleanup.
ChildExec ==
    /\ cpc = "branch"
    /\ cpc' \in {"app", "execfailed"}
    /\ UNCHANGED <<ppc, pend, pid, child_pid, wait_rc, rc, disp, argv_pyi, retval,
                   scratch, hist>>
    /\ LaunchFrame

\* The child branch after a failed execvp: cleanup frees its argument
\* vector, and the end of the function runs on the child's copies of the
\* variables, as fork left them.
ChildCleanupReturn ==
    /\ cpc = "execfailed"
    /\ argv_pyi' = [argv_pyi EXCEPT !.child = free(argv_pyi.child)]
    /\ cpc' = "c_returned"
    /\ hist' = [hist EXCEPT !.cret =
                    IF WaitFailed(hist.cvars.wait_rc) THEN 1
                    ELSE IF WIFEXITED(hist.cvars.rc) THEN WEXITSTATUS(hist.cvars.rc)
                    ELSE 1]
    /\ UNCHANGED <<ppc, pend, pid, child_pid, wait_rc, rc, disp, retval, scratch>>
    /\ LaunchFrame

\* The child's entry point tears the scratch directory down as the parent's
\* does.
ChildMainCleanup ==
    /\ cpc = "c_returned"
    /\ LET r == cleanUp(FALSE)
       IN  /\ scratch' = r.scratch
           /\ hist' = [hist EXCEPT !.removals = hist.removals + r.removed]
    /\ cpc' = "c_cleaned"
    /\ UNCHANGED <<ppc, pend, pid, child_pid, wait_rc, rc, disp, argv_pyi, retval>>
    /\ LaunchFrame

\* The child's entry point returns what pyi_utils_create_child returned.
ChildMainExit ==
    /\ cpc = "c_cleaned"
    /\ cpc' = "exited"
    /\ hist' = [hist EXCEPT !.cexit = hist.cret]
    /\ UNCHANGED <<ppc, pend, pid, child_pid, wait_rc, rc, disp, argv_pyi, retval, scratch>>
    /\ LaunchFrame

\* The application exits with a code.
AppExit ==
    /\ cpc = "app"
    /\ \E c \in ExitCodes : hist' = [hist EXCEPT !.cexit = c]
    /\ cpc' = "exited"
    /\ UNCHANGED <<ppc, pend, pid, child_pid, wait_rc, rc, disp, argv_pyi, retval, scratch>>
    /\ LaunchFrame

\* A signal ends the child, forwarded by the parent or sent by anyone.
ChildKilled ==
    /\ cpc \in {"branch", "app"}
    /\ \E sig \in TermSignals : hist' = [hist EXCEPT !.csig = sig]
    /\ cpc' = "signaled"
    /\ UNCHANGED <<ppc, pend, pid, child_pid, wait_rc, rc, disp, argv_pyi, retval, scratch>>
    /\ LaunchFrame

\* A signal is delivered to the parent: under SIG_DFL it ends the parent
\* unless its default action is to ignore; _signal_handler sends it to
\* child_pid; _ignoring_signal_handler drops it.
DeliverSignal ==
    /\ ParentAlive
    /\ hist.delivered < MaxSignals
    /\ \E signum \in DeliveredSignals :
          CASE disp[signum] = "SIG_DFL" /\ signum \notin NotFatalByDefault ->
                  /\ ppc' = "ended"
                  /\ pend' = "signal"
                  /\ hist' = [hist EXCEPT !.delivered = hist.delivered + 1,
                                          !.last = signum]
            [] disp[signum] = "_signal_handler" ->
                  /\ hist' = [hist EXCEPT
                                !.delivered = hist.delivered + 1,
                                !.last = signum,
                                !.intr = (hist.intr \/ ppc = "wait"),
                                !.kills = hist.kills \cup
                                    {signal_handler(child_pid, signum)},
                                !.staleKills = hist.staleKills \cup
                                    (IF cpc = "reaped" THEN {signum} ELSE {})]
                  /\ UNCHANGED <<ppc, pend>>
            [] disp[signum] = "_ignoring_signal_handler" ->
                  /\ hist' = [hist EXCEPT !.delivered = hist.delivered + 1,
                                          !.last = signum,
                                          !.intr = (hist.intr \/ ppc = "wait"),
                                          !.ignored = hist.ignored \cup {signum}]
                  /\ UNCHANGED <<ppc, pend>>
            [] OTHER ->
                  /\ hist' = [hist EXCEPT !.delivered = hist.delivered + 1,
                                          !.last = signum]
                  /\ UNCHANGED <<ppc, pend>>
    /\ UNCHANGED <<cpc, pid, child_pid, wait_rc, rc, disp, argv_pyi, retval, scratch>>
    /\ LaunchFrame

Next ==
    \/ Fork
    \/ SetChildPid
    \/ InstallHandlers
    \/ Wait
    \/ WaitFail
    \/ RestoreHandlers
    \/ Cleanup
    \/ Return
    \/ MainCleanup
    \/ MainExit
    \/ ChildExec
    \/ ChildCleanupReturn
    \/ ChildMainCleanup
    \/ ChildMainExit
    \/ AppExit
    \/ ChildKilled
    \/ DeliverSignal

Init == LaunchInit

Spec == Init /\ [][Next]_vars

----------------------------------------------------------------------------
(* The launch on Windows: pyi_utils_create_child under _WIN32 *)

\* SIGINT, SIGTERM, SIGBREAK and SIGABRT, as <signal.h> numbers them on
\* Windows.
WinIgnoredSignals == {2, 15, 21, 22}

WinInit ==
    /\ build = "win32"
    /\ env = NoEnv
    /\ \E onefile \in BOOLEAN :
          /\ status = [has_temp_directory |-> onefile,
                       temppath |-> IF onefile
                                    THEN <<"C:", "\\", "Temp", "\\", "_MEI12">>
                                    ELSE EmptyStr,
                       homepath |-> <<"C:", "\\", "app">>]
          /\ scratch = onefile
    /\ ignoreOpt \in BOOLEAN
    /\ ppc = "w_create_child"
    /\ pend = ""
    /\ cpc = "none"
    /\ pid = 0
    /\ child_pid = 0
    /\ wait_rc = -1
    /\ rc = 0
    /\ disp = [signum \in 0..(num_signals - 1) |-> "SIG_DFL"]
    /\ argv_pyi = [parent |-> "unset", child |-> "unset"]
    /\ retval = 0
    /\ hist = [kills |-> {}, ignored |-> {}, delivered |-> 0, removals |-> 0,
               teardownAt |-> "", cexit |-> -1, csig |-> 0, waitFailed |-> FALSE,
               intr |-> FALSE, raised |-> 0, last |-> 0, waits |-> 0,
               children |-> 0, cvars |-> <<>>, cret |-> -1, staleKills |-> {}]
    /\ StageIdle
    /\ TempIdle
    /\ CopyIdle
    /\ RmIdle

\* signal(SIGABRT, SIG_IGN) ... signal(SIGBREAK, SIG_IGN)
WinIgnoreSignals ==
    /\ ppc = "w_create_child"
    /\ disp' = [signum \in DOMAIN disp |->
                   IF signum \in WinIgnoredSignals THEN "SIG_IGN" ELSE disp[signum]]
    /\ ppc' = "w_create"
    /\ UNCHANGED <<pend, cpc, pid, child_pid, wait_rc, rc, argv_pyi, retval, scratch, hist>>
    /\ LaunchFrame

\* CreateProcessW succeeds and the child runs the application, or it fails
\* and rc = -1.
CreateProcessW ==
    /\ ppc = "w_create"
    /\ \/ /\ cpc' = "app"
          /\ ppc' = "w_wait"
          /\ hist' = [hist EXCEPT !.children = hist.children + 1]
          /\ UNCHANGED rc
       \/ /\ rc' = -1
          /\ ppc' = "w_return"
          /\ UNCHANGED <<cpc, hist>>
    /\ UNCHANGED <<pend, pid, child_pid, wait_rc, disp, argv_pyi, retval, scratch>>
    /\ LaunchFrame

\* WaitForSingleObject(pi.hProcess, INFINITE) comes back when the child has
\* ended.
WaitForSingleObject ==
    /\ ppc = "w_wait"
    /\ cpc = "exited"
    /\ ppc' = "w_exitcode"
    /\ hist' = [hist EXCEPT !.waits = hist.waits + 1]
    /\ UNCHANGED <<pend, cpc, pid, child_pid, wait_rc, rc, disp, argv_pyi, retval, scratch>>
    /\ LaunchFrame

\* GetExitCodeProcess(pi.hProcess, &rc)
GetExitCodeProcess ==
    /\ ppc = "w_exitcode"
    /\ rc' = hist.cexit
    /\ cpc' = "reaped"
    /\ ppc' = "w_return"
    /\ UNCHANGED <<pend, pid, child_pid, wait_rc, disp, argv_pyi, retval, scratch, hist>>
    /\ LaunchFrame

\* return rc
WinReturn ==
    /\ ppc = "w_return"
    /\ retval' = rc
    /\ ppc' = "returned"
    /\ UNCHANGED <<pend, cpc, pid, child_pid, wait_rc, rc, disp, argv_pyi, scratch, hist>>
    /\ LaunchFrame

WinNext ==
    \/ WinIgnoreSignals
    \/ CreateProcessW
    \/ WaitForSingleObject
    \/ GetExitCodeProcess
    \/ WinReturn
    \/ AppExit
    \/ MainCleanup
    \/ MainExit

SpecWin == WinInit /\ [][WinNext]_vars

----------------------------------------------------------------------------
(* The argument vector of the child: the copy loop of pyi_utils_create_child
   and the open-document events that come before the child exists *)

\* Arguments in the incoming vector, and open-document events handled before
\* the fork.
MaxArgc == 3
MaxDocs == 2

\* defined(__APPLE__) && defined(WINDOWED)
WINDOWED(b) == b = "darwin_windowed"
ArgBuilds == {"linux", "darwin", "darwin_windowed"}

\* Arguments, as sequences of characters.
Psn == <<"-", "p", "s", "n">>
ArgValues ==
    { <<"-", "p", "s", "n", "_", "1">>, Psn, <<"-", "p", "s">>,
      <<"x", "-", "p", "s", "n">>, <<"a">>, <<>> }
DocValues == { <<"/", "f">>, <<"-", "p", "s", "n", "f">> }

ArgVectors == UNION { [1..n -> ArgValues] : n \in 0..MaxArgc }

\* strstr(haystack, needle): the position of the first occurrence, 0 for
\* NULL.
strstr(h, n) ==
    LET at == { k \in 1..(Len(h) + 1) :
                   /\ k + Len(n) - 1 <= Len(h)
                   /\ SubSeq(h, k, k + Len(n) - 1) = n }
    IN  IF at = {} THEN 0 ELSE CHOOSE k \in at : \A j \in at : k <= j

skip_arg_anywhere(b, arg) == WINDOWED(b) /\ strstr(arg, Psn) # 0

\* if (strstr(argv[i], "-psn") == argv[i]) { /* skip */ }
skip_arg(b, arg) == WINDOWED(b) /\ strstr(arg, Psn) = 1

\* calloc(n, sizeof(char*)): n NULL pointers.
calloc(n) == [k \in 1..n |-> NULL]

\* realloc(v, n * sizeof(char*)): the first entries are kept; the new ones
\* hold anything until written, and both new ones are written at once.
realloc(v, n) == [k \in 1..n |-> IF k <= Len(v) THEN v[k] ELSE NULL]

\* The size of the handler's buf, char buf[4096] in the source, scaled down.
BufLen == 6
\* What the handler's buf, which is not initialised, can hold on entry.
StackBufs ==
    { [k \in 1..BufLen |-> "NUL"],
      [k \in 1..BufLen |-> IF k < BufLen THEN "?" ELSE "NUL"] }
\* Open-document events: the list of paths each carries.
Events ==
    { <<d>> : d \in DocValues } \cup { << <<"-", "p", "s", "n", "f">>, <<"/", "f">> >> }

\* AEGetNthPtr(&docList, index, typeUTF8Text, ..., buf, sizeof(buf),
\* &actualSize): the text of the item is copied to the start of buf, without
\* a terminator; what follows it in buf is what was there.
AEGetNthPtr(b, doc) ==
    [k \in 1..BufLen |-> IF k <= Len(doc) THEN doc[k] ELSE b[k]]

\* The string at the start of a buffer: its characters up to the first NUL.
c_str(b) ==
    LET nuls == { k \in 1..Len(b) : b[k] = "NUL" }
        end == IF nuls = {} THEN Len(b) + 1
               ELSE CHOOSE k \in nuls : \A j \in nuls : k <= j
    IN  SubSeq(b, 1, end - 1)

\* for (index = 1; index <= count; index++): the item is fetched into buf
\* and strdup(buf) appended to argv_pyi, which realloc has grown and whose
\* NULL is put back; an item whose fetch fails (the one at failAt) is skipped.
RECURSIVE AppendDocs(_, _, _, _, _)
AppendDocs(a, b, ev, index, failAt) ==
    IF index > Len(ev) THEN a
    ELSE IF index = failAt THEN AppendDocs(a, b, ev, index + 1, failAt)
    ELSE LET b1 == AEGetNthPtr(b, ev[index])
             n == a.argc_pyi
             w == realloc(a.v, n + 2)
         IN  AppendDocs([a EXCEPT !.v = [w EXCEPT ![n + 1] = c_str(b1),
                                                  ![n + 2] = NULL],
                                  !.argc_pyi = n + 1,
                                  !.docs = Append(@, ev[index])],
                        b1, ev, index + 1, failAt)

ArgsIdle ==
    /\ ignoreOpt = FALSE /\ pend = ""
    /\ rc = 0 /\ disp = <<>> /\ retval = 0 /\ scratch = FALSE
    /\ hist = <<>>
    /\ StageIdle
    /\ TempIdle
    /\ CopyIdle
    /\ RmIdle

ArgsInit ==
    /\ build \in ArgBuilds
    /\ env = NoEnv
    /\ status = [has_temp_directory |-> FALSE, temppath |-> EmptyStr,
                 homepath |-> <<"/", "opt", "/", "app">>]
    /\ \E argv \in ArgVectors :
          argv_pyi = [argv |-> argv, v |-> calloc(Len(argv) + 1), argc_pyi |-> 0,
                      i |-> 0, docs |-> <<>>, passed |-> <<>>,
                      queue |-> <<>>, sent |-> <<>>]
    /\ ppc = "a_copy"
    /\ cpc = "none"
    /\ pid = 0
    /\ child_pid = 0
    /\ wait_rc = -1
    /\ ArgsIdle

ArgsFrame ==
    UNCHANGED <<commonVars, stageVars, tempVars, copyVars, rmVars, ignoreOpt, pend,
                rc, disp, retval, scratch, hist>>

\* One round of "for (i = 0; i < argc; i++)": argv[i] is skipped or
\* duplicated into argv_pyi[argc_pyi++].
CopyArg ==
    /\ ppc = "a_copy"
    /\ argv_pyi.i < Len(argv_pyi.argv)
    /\ LET arg == argv_pyi.argv[argv_pyi.i + 1]
       IN  argv_pyi' =
             IF skip_arg(build, arg)
             THEN [argv_pyi EXCEPT !.i = @ + 1]
             ELSE [argv_pyi EXCEPT !.i = @ + 1,
                                   !.v[argv_pyi.argc_pyi + 1] = arg,
                                   !.argc_pyi = @ + 1]
    /\ UNCHANGED <<ppc, cpc, pid, child_pid, wait_rc>>
    /\ ArgsFrame

\* The loop is over; the windowed macOS build goes on to
\* process_apple_events, the others to fork.
CopyDone ==
    /\ ppc = "a_copy"
    /\ argv_pyi.i = Len(argv_pyi.argv)
    /\ ppc' = IF WINDOWED(build) THEN "a_events" ELSE "a_fork"
    /\ UNCHANGED <<argv_pyi, cpc, pid, child_pid, wait_rc>>
    /\ ArgsFrame

\* The desktop posts an open-document event while the parent is in
\* ReceiveNextEvent, before its timeout of one second has run out.  Before
\* the fork, events are let in while the vector has room for their paths.
EventArrives ==
    /\ WINDOWED(build)
    /\ ppc \in {"a_events", "a_pump"}
    /\ argv_pyi.queue = <<>>
    /\ \E ev \in Events :
          /\ ppc = "a_events" => Len(argv_pyi.docs) + Len(ev) <= MaxDocs
          /\ argv_pyi' = [argv_pyi EXCEPT !.queue = <<ev>>]
    /\ UNCHANGED <<ppc, cpc, pid, child_pid, wait_rc>>
    /\ ArgsFrame

\* ReceiveNextEvent returns an event and it is dispatched to
\* handle_open_doc_ae: with child_pid 0 its paths are appended to argv_pyi;
\* else a copy of the event is addressed to the process of child_pid and
\* sent, unless one of the calls that build it fails.
OpenDocEvent ==
    /\ ppc \in {"a_events", "a_pump"}
    /\ argv_pyi.queue # <<>>
    /\ LET ev == argv_pyi.queue[1]
           a == [argv_pyi EXCEPT !.queue = <<>>]
       IN  IF child_pid = 0
           THEN \E b \in StackBufs, failAt \in 0..Len(ev) :
                   argv_pyi' = AppendDocs(a, b, ev, 1, failAt)
           ELSE \E ok \in BOOLEAN :
                   argv_pyi' = IF ok
                               THEN [a EXCEPT !.sent = [pid |-> child_pid, docs |-> ev]]
                               ELSE a
    /\ UNCHANGED <<ppc, cpc, pid, child_pid, wait_rc>>
    /\ ArgsFrame

\* ReceiveNextEvent times out, no event having come for a second:
\* process_apple_events returns.
EventsDone ==
    /\ ppc \in {"a_events", "a_pump"}
    /\ argv_pyi.queue = <<>>
    /\ ppc' = IF ppc = "a_events" THEN "a_fork" ELSE "a_waitpid"
    /\ UNCHANGED <<argv_pyi, cpc, pid, child_pid, wait_rc>>
    /\ ArgsFrame

\* fork, and in the child execvp(thisfile, argv_pyi): the child gets the
\* vector up to its first NULL.
ExecArgs ==
    /\ ppc = "a_fork"
    /\ LET v == argv_pyi.v
           nulls == { k \in 1..Len(v) : v[k] = NULL }
           end == IF nulls = {} THEN Len(v) + 1
                  ELSE CHOOSE k \in nulls : \A j \in nulls : k <= j
       IN  argv_pyi' = [argv_pyi EXCEPT !.passed = SubSeq(v, 1, end - 1)]
    /\ ppc' = "a_passed"
    /\ cpc' = "app"
    /\ pid' = ChildPid
    /\ UNCHANGED <<child_pid, wait_rc>>
    /\ ArgsFrame

ArgsNext ==
    \/ CopyArg
    \/ CopyDone
    \/ EventArrives
    \/ OpenDocEvent
    \/ EventsDone
    \/ ExecArgs

SpecArgs == ArgsInit /\ [][ArgsNext]_vars

----------------------------------------------------------------------------
(* The wait loop of the windowed macOS build: waitpid with WNOHANG in turn
   with process_apple_events *)

PumpVectors == { <<>>, << <<"a">> >>, << <<"a">>, <<"/", "f">> >> }

\* The parent just after fork, the child running the application.
PumpInit ==
    /\ build = "darwin_windowed"
    /\ env = NoEnv
    /\ status = [has_temp_directory |-> FALSE, temppath |-> EmptyStr,
                 homepath |-> <<"/", "opt", "/", "app">>]
    /\ \E x \in PumpVectors :
          argv_pyi = [argv |-> x, v |-> x \o <<NULL>>, argc_pyi |-> Len(x),
                      i |-> Len(x), docs |-> <<>>, passed |-> x,
                      queue |-> <<>>, sent |-> <<>>]
    /\ ppc = "a_passed"
    /\ cpc = "app"
    /\ pid = ChildPid
    /\ child_pid = 0
    /\ wait_rc = -1
    /\ ArgsIdle

\* child_pid = pid, and the handlers are installed.
PumpSetChildPid ==
    /\ ppc = "a_passed"
    /\ child_pid' = pid
    /\ ppc' = "a_waitpid"
    /\ UNCHANGED <<argv_pyi, cpc, pid, wait_rc>>
    /\ ArgsFrame

\* The application ends.
PumpChildExit ==
    /\ cpc = "app"
    /\ cpc' = "exited"
    /\ UNCHANGED <<argv_pyi, ppc, pid, child_pid, wait_rc>>
    /\ ArgsFrame

\* wait_rc = waitpid(child_pid, &rc, WNOHANG); if (wait_rc == 0)
\* process_apple_events(); while (!wait_rc)
PumpWaitpid ==
    /\ ppc = "a_waitpid"
    /\ IF cpc = "exited"
       THEN /\ wait_rc' = child_pid
            /\ cpc' = "reaped"
            /\ ppc' = "a_done"
       ELSE /\ wait_rc' = 0
            /\ ppc' = "a_pump"
            /\ UNCHANGED cpc
    /\ UNCHANGED <<argv_pyi, pid, child_pid>>
    /\ ArgsFrame

PumpNext ==
    \/ PumpSetChildPid
    \/ PumpChildExit
    \/ PumpWaitpid
    \/ EventArrives
    \/ OpenDocEvent
    \/ EventsDone

SpecPump == PumpInit /\ [][PumpNext]_vars

\* The parent takes every step it can take; the desktop and the application
\* are bound to nothing.  A timeout needs a second without an event, so it is
\* not owed to a parent that events keep reaching.
SpecPumpFair ==
    /\ SpecPump
    /\ WF_vars(PumpSetChildPid)
    /\ WF_vars(PumpWaitpid)
    /\ WF_vars(OpenDocEvent)
    /\ WF_vars(EventsDone)

----------------------------------------------------------------------------
(* pyi_copy_file: the copy loop over a 4096-byte buffer *)

\* The size of buf, char buf[4096] in the source, scaled down.
BlockSize == 2
\* The longest source file: two full blocks and a partial one.
MaxLen == 2 * BlockSize + 1
\* The passes of the loop the model follows.
MaxReads == 4
Bytes == {"a", "b"}
Sources == UNION { [1..n -> Bytes] : n \in 0..MaxLen }

\* The largest size_t value, which the int -1 converts to in a comparison
\* with a size_t (16 bits here).
SIZE_MAX == 2^16 - 1
to_size_t(i) == i % (SIZE_MAX + 1)

Min(a, b) == IF a < b THEN a ELSE b

\* fread(buf, size, 1, in): the bytes left, up to size, are stored at the
\* start of buf and the rest of buf is left as it was; the result is the
\* number of whole items read, 1 or 0; reading short of size sets the
\* end-of-file indicator; a failing read sets the error indicator.
fread(b, size, f, src, fail) ==
    IF fail
    THEN [ret |-> 0, buf |-> b, in |-> [f EXCEPT !.err = TRUE]]
    ELSE LET k == Min(size, Len(src) - f.pos)
         IN  [ret |-> IF k = size THEN 1 ELSE 0,
              buf |-> [i \in 1..size |-> IF i <= k THEN src[f.pos + i] ELSE b[i]],
              in |-> [f EXCEPT !.pos = f.pos + k, !.eof = (f.eof \/ k < size)]]

\* fwrite(buf, size, 1, out): all size bytes of buf are appended, or the
\* write fails, nothing is appended and the error indicator is set.
fwrite(b, size, f, fail) ==
    IF fail
    THEN [ret |-> 0, out |-> [f EXCEPT !.err = TRUE]]
    ELSE [ret |-> 1, out |-> [f EXCEPT !.data = f.data \o SubSeq(b, 1, size)]]

\* if (fread(buf, 4096, 1, in) == -1)
fread_failed(r) == r = to_size_t(-1)

CopyInit ==
    /\ build \in PosixBuilds
    /\ env = NoEnv
    /\ status = [has_temp_directory |-> TRUE,
                 temppath |-> <<"/", "tmp", "/", "_MEI1aaaaa">>,
                 homepath |-> <<"/", "opt", "/", "app">>]
    /\ \E src \in Sources, b \in [1..BlockSize -> Bytes] :
          copy = [pc |-> "open", src |-> src,
                  in |-> [pos |-> 0, eof |-> FALSE, err |-> FALSE],
                  out |-> [data |-> <<>>, err |-> FALSE],
                  buf |-> b, error |-> 0, reads |-> 0, writeFailed |-> FALSE,
                  ret |-> 0]
    /\ StageIdle
    /\ TempIdle
    /\ RmIdle
    /\ LaunchIdle

CopyFrame == UNCHANGED <<commonVars, stageVars, tempVars, rmVars, launchVars>>

\* in = pyi_path_fopen(src, "rb"); out = pyi_open_target(dst, filename);
\* either may be NULL, and the function then returns -1.
CopyOpen ==
    /\ copy.pc = "open"
    /\ \E inOk, outOk \in BOOLEAN :
          IF inOk /\ outOk
          THEN copy' = [copy EXCEPT !.pc = "feof"]
          ELSE copy' = [copy EXCEPT !.pc = "done", !.ret = -1]
    /\ CopyFrame

\* while (!feof(in))
CopyFeof ==
    /\ copy.pc = "feof"
    /\ copy' = [copy EXCEPT !.pc = IF copy.in.eof THEN "close" ELSE "read"]
    /\ CopyFrame

\* The read of one pass and the test of its result.
CopyRead ==
    /\ copy.pc = "read"
    /\ copy.reads < MaxReads
    /\ \E fail \in BOOLEAN :
          LET r == fread(copy.buf, BlockSize, copy.in, copy.src, fail)
              c == [copy EXCEPT !.buf = r.buf, !.in = r.in,
                                !.reads = copy.reads + 1]
          IN  IF fread_failed(r.ret)
              THEN IF r.in.err
                   THEN copy' = [c EXCEPT !.in.err = FALSE, !.error = -1,
                                          !.pc = "close"]
                   ELSE copy' = [c EXCEPT !.pc = "feof"]
              ELSE copy' = [c EXCEPT !.pc = "write"]
    /\ CopyFrame

\* The write of one pass: rc = fwrite(buf, 4096, 1, out) and its test.
CopyWrite ==
    /\ copy.pc = "write"
    /\ \E fail \in BOOLEAN :
          LET r == fwrite(copy.buf, BlockSize, copy.out, fail)
          IN  IF r.ret <= 0 \/ r.out.err
              THEN copy' = [copy EXCEPT !.out = [r.out EXCEPT !.err = FALSE],
                                        !.error = -1, !.writeFailed = TRUE,
                                        !.pc = "close"]
              ELSE copy' = [copy EXCEPT !.out = r.out, !.pc = "feof"]
    /\ CopyFrame

\* fclose(in); fclose(out); return error;
CopyClose ==
    /\ copy.pc = "close"
    /\ copy' = [copy EXCEPT !.pc = "done", !.ret = copy.error]
    /\ CopyFrame

CopyNext ==
    \/ CopyOpen
    \/ CopyFeof
    \/ CopyRead
    \/ CopyWrite
    \/ CopyClose

SpecCopy == CopyInit /\ [][CopyNext]_vars

----------------------------------------------------------------------------
(* The environment accessors on their own: pyi_getenv, pyi_setenv,
   pyi_unsetenv, and a caller that writes into the string it was given *)

\* A string pointer: its contents, and whether it points into the live
\* environment of the process.
NullPtr == [val |-> NULL, shared |-> FALSE]

strdup_alias(p) == p

\* strdup: a fresh copy.
strdup(p) == [val |-> p.val, shared |-> FALSE]

\* What pyi_getenv hands back: NULL, or strdup of the string it found;
\* getenv(3) points into the environment, the win32 buffers do not.
pyi_getenv_copy(b, e, variable) ==
    LET v == pyi_getenv(b, e, variable)
    IN  IF v = NULL THEN NullPtr
        ELSE strdup([val |-> v, shared |-> (b # "win32")])

GetenvVars == {"TMP", "TEMP"}
GetenvValues == { NULL, EmptyStr, <<"x">>, <<"%TEMP%", "y">>, <<"%NOPE%">> }
Scribbled == <<"!">>

GetenvInit ==
    /\ build \in Builds
    /\ \E a, b \in GetenvValues :
          /\ (build = "win32" => a # EmptyStr /\ b # EmptyStr)
          /\ env = [NoEnv EXCEPT !["TMP"] = a, !["TEMP"] = b]
    /\ status = [has_temp_directory |-> FALSE, temppath |-> EmptyStr,
                 homepath |-> <<"/", "opt", "/", "app">>]
    /\ retval = [op |-> "none", var |-> "TMP", ptr |-> NullPtr]
    /\ ppc = "env"
    /\ ignoreOpt = FALSE /\ pend = "" /\ cpc = "none" /\ pid = 0 /\ child_pid = 0
    /\ wait_rc = -1 /\ rc = 0 /\ disp = <<>> /\ argv_pyi = <<>>
    /\ scratch = FALSE /\ hist = <<>>
    /\ StageIdle
    /\ TempIdle
    /\ CopyIdle
    /\ RmIdle

GetenvFrame ==
    UNCHANGED <<build, status, stageVars, tempVars, copyVars, rmVars, ignoreOpt, ppc, pend,
                cpc, pid, child_pid, wait_rc, rc, disp, argv_pyi, scratch, hist>>

\* pyi_getenv(variable)
EnvGet ==
    /\ ppc = "env"
    /\ \E variable \in GetenvVars :
          retval' = [op |-> "get", var |-> variable,
                     ptr |-> pyi_getenv_copy(build, env, variable)]
    /\ UNCHANGED env
    /\ GetenvFrame

\* pyi_setenv(variable, value)
EnvSet ==
    /\ ppc = "env"
    /\ \E variable \in GetenvVars, value \in GetenvValues \ {NULL} :
          /\ env' = pyi_setenv(build, env, variable, value)
          /\ retval' = [op |-> "set", var |-> variable, ptr |-> NullPtr]
    /\ GetenvFrame

\* pyi_unsetenv(variable)
EnvUnset ==
    /\ ppc = "env"
    /\ \E variable \in GetenvVars :
          /\ env' = pyi_unsetenv(build, env, variable)
          /\ retval' = [op |-> "unset", var |-> variable, ptr |-> NullPtr]
    /\ GetenvFrame

\* The caller overwrites the string pyi_getenv returned; a string that
\* points into the environment changes the variable with it.
Scribble ==
    /\ ppc = "env"
    /\ retval.op = "get"
    /\ retval.ptr.val # NULL
    /\ retval' = [retval EXCEPT !.op = "scribble", !.ptr.val = Scribbled]
    /\ env' = IF retval.ptr.shared THEN [env EXCEPT ![retval.var] = Scribbled]
              ELSE env
    /\ GetenvFrame

GetenvNext ==
    \/ EnvGet
    \/ EnvSet
    \/ EnvUnset
    \/ Scribble

SpecGetenv == GetenvInit /\ [][GetenvNext]_vars

Range(s) == { s[i] : i \in 1..Len(s) }

\* The candidates the documentation gives a configuration: the override
\* alone when the option is present; else, on POSIX, the non-empty values of
\* TMPDIR, TEMP and TMP and then /tmp, /var/tmp and /usr/tmp, and on win32
\* the system's temporary directory.
DocumentedCandidates ==
    IF opt_tmpdir # NULL THEN { DirOf(opt_tmpdir) }
    ELSE IF build = "win32" THEN { DirOf(GetTempPathW(env)) }
    ELSE { DirOf(env[n]) : n \in { m \in TmpVars : env[m] \notin {NULL, EmptyStr} } }
            \cup { <<"/", "tmp">>, <<"/", "var", "/", "tmp">>, <<"/", "usr", "/", "tmp">> }

\* C1: pyi_create_temp_path ends in one of two states: it returned 0, the
\* flag is set and temppath names a directory this process created, the only
\* one; or it returned -1, the flag is unset, and every documented candidate
\* was tried (on win32, in all 5 attempts) and none of them gave a directory.
C1_CreateSucceedsOrExhausts ==
    nCalls >= 1 =>
        \/ /\ tempRet = 0
           /\ status.has_temp_directory = TRUE
           /\ created = { DirOf(status.temppath) }
           /\ created \subseteq dirs
           /\ ParentOf(status.temppath) \in DocumentedCandidates \cap writable
        \/ /\ tempRet = -1
           /\ status.has_temp_directory = FALSE
           /\ created = {}
           /\ Range(tried) = DocumentedCandidates
           /\ nFsOps = IF build = "win32" THEN 5 ELSE Len(tried)

\* Every one of the six POSIX candidates has failed, and the call with them.
C1_Witness ==
    /\ build = "linux"
    /\ nCalls = 1
    /\ tempRet = -1
    /\ Len(tried) = 6
    /\ status.has_temp_directory = FALSE

\* C2: once has_temp_directory is set, a call of pyi_create_temp_path returns
\* 0, looks up no option, attempts no directory creation, and leaves the
\* record, the directories and the environment as they were; so no second
\* scratch directory is created.
C2_CreateIdempotent ==
    [][status.has_temp_directory = TRUE =>
          /\ tempRet' = 0
          /\ nLookups' = 0
          /\ nFsOps' = 0
          /\ status' = status
          /\ dirs' = dirs
          /\ created' = created
          /\ env' = env]_vars

\* A second call was made with the directory already created.
C2_Witness ==
    /\ nCalls = 2
    /\ status.has_temp_directory = TRUE
    /\ Cardinality(created) = 1
    /\ nLookups = 0
    /\ nFsOps = 0

SearchPathBuilds == {"linux", "aix"}

\* C8: on the search-path platforms, after staging the loader variable is
\* the staged path, followed by ":" and the previous value when there was a
\* non-empty one, and the staged path alone when the variable was unset or
\* empty.
C8_LoaderVarPrepended ==
    (stagePc = "staged" /\ build \in SearchPathBuilds) =>
        LET var == IF build = "aix" THEN "LIBPATH" ELSE "LD_LIBRARY_PATH"
            prev == envPre[var]
            path == IF status.temppath # EmptyStr THEN status.temppath
                    ELSE status.homepath
        IN  IF prev # NULL /\ prev # EmptyStr
            THEN env[var] = path \o <<":">> \o prev
            ELSE env[var] = path

\* The variable was set but empty, and holds the scratch path alone now.
C8_Witness ==
    /\ stagePc = "staged"
    /\ build = "aix"
    /\ envPre["LIBPATH"] = EmptyStr
    /\ status.temppath # EmptyStr
    /\ env["LIBPATH"] = status.temppath

\* C9, as claimed: after staging the shadow variable equals the loader
\* variable's value before staging, and is absent when the loader variable
\* was absent (or empty, which the program reads as absent).
C9_ShadowEqualsPrevious ==
    (stagePc = "staged" /\ build \in SearchPathBuilds) =>
        LET var == IF build = "aix" THEN "LIBPATH" ELSE "LD_LIBRARY_PATH"
            shadow == IF build = "aix" THEN "LIBPATH_ORIG" ELSE "LD_LIBRARY_PATH_ORIG"
        IN  IF envPre[var] \in {NULL, EmptyStr}
            THEN env[shadow] \in {NULL, EmptyStr}
            ELSE env[shadow] = envPre[var]

\* C9, amended: after staging the shadow variable equals the loader
\* variable's value before staging when that value was non-empty, and is
\* what it was before staging (absent if it was absent, else the inherited
\* value) when the loader variable was unset or empty.
C9_ShadowSavedOrUntouched ==
    (stagePc = "staged" /\ build \in SearchPathBuilds) =>
        LET var == IF build = "aix" THEN "LIBPATH" ELSE "LD_LIBRARY_PATH"
            shadow == IF build = "aix" THEN "LIBPATH_ORIG" ELSE "LD_LIBRARY_PATH_ORIG"
        IN  IF envPre[var] \in {NULL, EmptyStr}
            THEN env[shadow] = envPre[shadow]
            ELSE env[shadow] = envPre[var]

\* The loader variable was unset and the inherited shadow value survives.
C9_Witness ==
    /\ stagePc = "staged"
    /\ build = "linux"
    /\ envPre["LD_LIBRARY_PATH"] = NULL
    /\ envPre["LD_LIBRARY_PATH_ORIG"] = <<"/", "sys">>
    /\ env["LD_LIBRARY_PATH_ORIG"] = <<"/", "sys">>

\* C5, as claimed: when pyi_remove_temp_path has returned and no other
\* process touched the tree, nothing of the tree is left, the root included.
C5_RemovesWholeTree ==
    (rmState = "returned" /\ deletes = 0) => present \cap TreeNodes = {}

\* C6, as claimed: whatever disappears under the traversal, and also when the
\* path does not exist at all, the traversal does not fault.
C6_NeverFaults == rmState # "fault"

\* C7, as claimed: the traversal neither removes nor opens an object outside
\* the tree rooted at its argument.
C7_StaysInsideTree ==
    /\ removedByUs \subseteq TreeNodes
    /\ openedByUs \subseteq TreeNodes


\* The parent's pyi_utils_create_child has given control back to its entry
\* point, or the parent has ended after doing so.
ParentReturned ==
    \/ ppc \in {"returned", "cleaned"}
    \/ ppc = "ended" /\ pend \in {"exit", "fault"}

\* C3: once the scratch directory has been created it is removed exactly once
\* before the process ends, on every termination path of the launch (the
\* child exits, the spawn fails, the exec fails, the wait fails, the child is
\* killed by a signal).
C3_RemovedExactlyOnce ==
    (ppc = "ended" /\ pend \in {"exit", "fault", "reraise"} /\ status.has_temp_directory)
        => (hist.removals = 1 /\ ~scratch)

\* C4: pyi_utils_create_child gives control back to the entry point, which
\* then removes the scratch directory, only after the child has terminated
\* (or when there is no child), a failed waitpid included.
C4_ReturnsAfterChildEnds ==
    status.has_temp_directory =>
        /\ ParentReturned => cpc \in {"none", "reaped"}
        /\ hist.teardownAt \in {"", "none", "reaped"}

\* C10 (original wording): when the child terminated normally with exit code c, the
\* parent's pyi_utils_create_child returns exactly c, whatever was forwarded
\* or ignored.
C10_ReturnsChildExitCode ==
    (ParentReturned /\ hist.cexit >= 0 /\ cpc \in {"exited", "reaped"})
        => retval = hist.cexit

\* C10: when waitpid succeeded and reported that the child terminated
\* normally with exit code c (any c in 0..255), the parent's
\* pyi_utils_create_child returns exactly c, whatever was forwarded or
\* ignored while waiting.
C10_ReturnsReapedExitCode ==
    (ParentReturned /\ wait_rc >= 0 /\ cpc = "reaped" /\ hist.cexit >= 0)
        => retval = hist.cexit

C10_Witness ==
    /\ ppc = "returned" /\ wait_rc = ChildPid
    /\ hist.cexit = 255 /\ retval = 255
    /\ \E k \in hist.kills : k.sig = 15


\* The parent's pyi_utils_create_child is over: it has returned, or the
\* parent has ended in it by the signal it raised.
ParentDone == ParentReturned \/ (ppc = "ended" /\ pend = "reraise")

AllDefault == \A signum \in DOMAIN disp : disp[signum] = "SIG_DFL"

\* C11 (original wording): when the child is terminated by signal s the
\* parent raises s against itself, after every disposition has been reset to
\* the default, and so ends by s instead of returning a code.
C11_ReraisesChildSignal ==
    (ParentDone /\ hist.csig > 0 /\ cpc \in {"signaled", "reaped"})
        => (pend = "reraise" /\ hist.raised = hist.csig /\ AllDefault)

\* C11: when waitpid succeeded and reported that signal s terminated the
\* child, the parent raises s against itself, does so only after every
\* disposition has been reset to the default, and ends by s: it returns no
\* code to the entry point and sends nothing to the dead child.
C11_ReraisesReapedSignal ==
    (ParentDone /\ wait_rc >= 0 /\ cpc = "reaped" /\ hist.csig > 0)
        => /\ ppc = "ended" /\ pend = "reraise"
           /\ hist.raised = hist.csig
           /\ AllDefault
           /\ retval = 0
           /\ hist.teardownAt = ""

C11_Witness ==
    /\ ppc = "ended" /\ pend = "reraise"
    /\ hist.csig = 6 /\ hist.raised = 6 /\ rc = 134
    /\ hist.kills # {}


\* C12: when waitpid returns a negative value, pyi_utils_create_child
\* returns 1; the status word is read neither as an exit code nor as a
\* signal, and nothing is raised.
C12_WaitFailureReturnsOne ==
    (hist.waitFailed /\ ParentDone)
        => /\ wait_rc < 0
           /\ retval = 1
           /\ pend # "reraise"
           /\ hist.raised = 0

C12_Witness ==
    /\ ppc = "returned" /\ hist.waitFailed /\ retval = 1
    /\ cpc = "reaped" /\ hist.csig = 15


\* C13: when process creation fails (fork on POSIX, CreateProcessW on
\* Windows) pyi_utils_create_child returns 1 to the entry point and performs
\* no wait; on POSIX it installs no handler and leaves child_pid as it was.
C13_SpawnFailureReturnsOne ==
    (ParentReturned /\ hist.children = 0)
        => /\ retval = 1
           /\ hist.waits = 0
           /\ (build \in PosixBuilds => (AllDefault /\ child_pid = 0))

C13_Witness ==
    /\ ppc = "returned" /\ hist.children = 0 /\ cpc = "none"
    /\ build = "win32" /\ rc = -1


\* The parent is in Running: handlers installed, blocked in waitpid.
Running == ppc = "wait"

\* A step that delivers a signal that can be caught to the parent.
CaughtDelivery ==
    /\ hist'.delivered = hist.delivered + 1
    /\ hist'.last \notin Uncatchable

\* C14: while the parent is in Running, a delivery of a signal that can be
\* caught (any but SIGCHLD) sends, in Forward mode, that same signal number
\* to the child's pid, and in Ignore mode sends nothing; the mode is the one
\* read from the option before the handlers were installed; and in both
\* modes the parent keeps waiting: it leaves the wait only once the child
\* has ended.
C14_ForwardOrIgnoreAndKeepWaiting ==
    [][ /\ (Running /\ CaughtDelivery) =>
              /\ ppc' = "wait"
              /\ hist'.kills = IF ignoreOpt THEN hist.kills
                               ELSE hist.kills \cup {[pid |-> pid, sig |-> hist'.last]}
              /\ ignoreOpt' = ignoreOpt
        /\ (Running /\ ppc' \notin {"wait", "ended"}) => cpc' = "reaped"
      ]_vars

C14_Witness ==
    /\ Running /\ ~ignoreOpt /\ hist.last = 28 /\ hist.delivered = 2
    /\ hist.kills = {[pid |-> ChildPid, sig |-> 15], [pid |-> ChildPid, sig |-> 28]}


\* The arguments that do not start with "-psn", in their order.
WithoutPsn(argv) ==
    SelectSeq(argv, LAMBDA a : ~(Len(a) >= 4 /\ SubSeq(a, 1, 4) = <<"-", "p", "s", "n">>))

NullTerminated ==
    /\ Len(argv_pyi.v) >= argv_pyi.argc_pyi + 1
    /\ argv_pyi.v[argv_pyi.argc_pyi + 1] = NULL
    /\ \A k \in 1..argv_pyi.argc_pyi : argv_pyi.v[k] # NULL
    /\ Len(argv_pyi.passed) = argv_pyi.argc_pyi

\* C15 (original wording): the vector passed to the child is the incoming
\* argv without the arguments that start with "-psn" on the macOS windowed
\* build, the incoming argv unchanged on the other POSIX builds, and in both
\* cases NULL-terminated with argc_pyi entries.
C15_PassedIsFilteredArgv ==
    ppc = "a_passed" =>
        /\ argv_pyi.passed = IF WINDOWED(build) THEN WithoutPsn(argv_pyi.argv)
                             ELSE argv_pyi.argv
        /\ NullTerminated

\* C15: the vector passed to the child is, on the macOS windowed build, the
\* incoming argv without the arguments that start with "-psn", in order,
\* followed by one entry for each path fetched from the open-document events
\* handled before the child existed; on the other POSIX builds it is the
\* incoming argv unchanged; in both cases it is NULL-terminated with argc_pyi
\* entries.
C15_PassedIsFilteredArgvThenDocs ==
    ppc = "a_passed" =>
        LET f == IF WINDOWED(build) THEN WithoutPsn(argv_pyi.argv)
                 ELSE argv_pyi.argv
        IN  /\ Len(argv_pyi.passed) = Len(f) + Len(argv_pyi.docs)
            /\ SubSeq(argv_pyi.passed, 1, Len(f)) = f
            /\ ~WINDOWED(build) => argv_pyi.docs = <<>>
            /\ NullTerminated

C15_Witness ==
    /\ ppc = "a_passed" /\ build = "darwin_windowed"
    /\ argv_pyi.argv = << <<"a">>, <<"-", "p", "s", "n", "_", "1">>, <<"x", "-", "p", "s", "n">> >>
    /\ argv_pyi.passed = << <<"a">>, <<"x", "-", "p", "s", "n">> >>


\* C16: an invocation creates at most one child; when spawn and wait
\* succeed the parent neither returns nor ends in the function before the
\* child has terminated; a signal caught by the parent in Running never makes
\* it stop waiting, and the parent sends the child nothing but the signals
\* it was itself delivered.
C16_OneChildWaitedFor ==
    [][ /\ hist'.children <= 1
        /\ (ParentDone' /\ wait_rc' >= 0 /\ hist'.children = 1) => cpc' = "reaped"
        /\ (Running /\ hist.intr /\ ppc' \notin {"wait", "ended"}) => cpc' = "reaped"
        /\ hist'.kills # hist.kills =>
              /\ hist'.delivered = hist.delivered + 1
              /\ hist'.kills = hist.kills \cup {[pid |-> child_pid, sig |-> hist'.last]}
      ]_vars

C16_Witness ==
    /\ ppc = "returned" /\ wait_rc = ChildPid /\ cpc = "reaped"
    /\ hist.children = 1 /\ hist.intr /\ hist.delivered = 2


\* C17: pyi_getenv returns NULL both for an unset variable and for one set
\* to the empty string, and otherwise an independent copy equal to the
\* value (writing into it leaves the environment alone); so after
\* pyi_unsetenv(v) pyi_getenv(v) is NULL on every build, the one that
\* emulates unset by setting the empty string included.
C17_GetenvAbsentOrCopy ==
    [][ /\ retval'.op = "get" =>
              LET v == env[retval'.var]
              IN  /\ (v = NULL \/ v = EmptyStr) => retval'.ptr.val = NULL
                  /\ (v # NULL /\ v # EmptyStr) =>
                        (retval'.ptr.val = v /\ ~retval'.ptr.shared)
        /\ retval'.op = "scribble" => env' = env
        /\ (retval.op = "unset" /\ retval'.op = "get" /\ retval'.var = retval.var)
              => retval'.ptr.val = NULL
      ]_vars

C17_Witness ==
    /\ build = "aix" /\ retval.op = "get" /\ retval.var = "TMP"
    /\ env["TMP"] = EmptyStr /\ retval.ptr = NullPtr

\* C18: on the Windows build the value pyi_getenv returns is the value of
\* the variable with its %VAR% references expanded; on the other builds it
\* is the raw value.
C18_GetenvExpandsOnWindows ==
    [][ (retval'.op = "get" /\ retval'.ptr.val # NULL) =>
            retval'.ptr.val = IF build = "win32"
                              THEN ExpandEnvironmentStringsW(env, env[retval'.var])
                              ELSE env[retval'.var]
      ]_vars

C18_Witness ==
    /\ build = "win32" /\ retval.op = "get" /\ retval.var = "TMP"
    /\ env["TMP"] = <<"%TEMP%", "y">> /\ env["TEMP"] = <<"x">>
    /\ retval.ptr.val = <<"%TEMP%", "y">>


\* C19: on every path of the POSIX pyi_utils_create_child on which the
\* handlers were installed, wait succeeded or failed, every signal number
\* 0..64 is back at its default disposition when the function returns or
\* re-raises: no handler of the launcher outlives the call.
C19_HandlersRestored ==
    (ParentDone /\ hist.children = 1)
        => \A signum \in 0..64 : disp[signum] = "SIG_DFL"

C19_Witness ==
    /\ ppc = "returned" /\ hist.children = 1 /\ hist.waitFailed
    /\ hist.kills # {} /\ disp[15] = "SIG_DFL"

\* C20: in each process argv_pyi is freed exactly once on every exit path
\* of pyi_utils_create_child (fork failure, exec failure in the child
\* branch, wait failure, normal child exit, child killed by a signal, where
\* it is freed before the re-raise): never twice, never still allocated at
\* the return.
C20_ArgvFreedOnce ==
    /\ argv_pyi.parent # "double-free"
    /\ argv_pyi.child # "double-free"
    /\ ParentDone => argv_pyi.parent = "freed"
    /\ cpc \in {"c_returned", "c_cleaned"} => argv_pyi.child = "freed"

C20_Witness ==
    /\ ppc = "ended" /\ pend = "reraise" /\ argv_pyi.parent = "freed"
    /\ hist.csig = 9

\* C21: when exec fails in the child branch, the child has installed no
\* handler, has not set child_pid, has not waited, frees its argument vector
\* through the shared cleanup and returns 1.
C21_ExecFailureReturnsOne ==
    cpc \in {"c_returned", "c_cleaned"} =>
        /\ \A signum \in DOMAIN hist.cvars.disp : hist.cvars.disp[signum] = "SIG_DFL"
        /\ hist.cvars.child_pid = 0
        /\ hist.cvars.waits = 0
        /\ argv_pyi.child = "freed"
        /\ hist.cret = 1

C21_Witness == cpc = "c_returned" /\ argv_pyi.child = "freed" /\ hist.cret = 1

\* C27: the forwarding handler never runs while child_pid is 0: kill is never
\* called with pid 0.
C27_NeverKillsPidZero ==
    /\ \A k \in hist.kills : k.pid # 0
    /\ (\E signum \in DOMAIN disp : disp[signum] = "_signal_handler") => child_pid # 0

C27_Witness == \E k \in hist.kills : k.pid = ChildPid /\ child_pid = ChildPid

\* C28: in Forward mode no signal delivered to the parent after waitpid has
\* reaped the child is forwarded to the stale child_pid.
C28_NoForwardAfterReap == hist.staleKills = {}

C28_Witness ==
    /\ ppc = "restore"
    /\ cpc = "reaped"
    /\ hist.staleKills # {}
    /\ \E k \in hist.kills : k.pid = child_pid /\ k.sig \in hist.staleKills

\* The roots the documentation has the POSIX probing try, in order: the
\* override alone when the option is present; else the values of TMPDIR, TEMP
\* and TMP that are set and not empty, then /tmp, /var/tmp and /usr/tmp.
PosixCandidates ==
    IF opt_tmpdir # NULL THEN << DirOf(opt_tmpdir) >>
    ELSE LET set(n) == env[n] # NULL /\ env[n] # EmptyStr
             one(n) == IF set(n) THEN << DirOf(env[n]) >> ELSE << >>
         IN  one("TMPDIR") \o one("TEMP") \o one("TMP")
                \o << <<"/", "tmp">>, <<"/", "var", "/", "tmp">>,
                      <<"/", "usr", "/", "tmp">> >>

\* C22: on POSIX the roots are probed in the documented order and the
\* probing stops at the first root a directory can be created in, which
\* temppath then records; with the override present only the override is
\* tried, and a failure there fails the operation without fallback.
C22_ProbesInOrder ==
    (build = "linux" /\ nLookups = 1) =>
        LET c == PosixCandidates
            ok == { i \in 1..Len(c) : c[i] \in writable }
        IN  IF ok = {}
            THEN /\ tempRet = -1
                 /\ tried = c
                 /\ status.has_temp_directory = FALSE
            ELSE LET k == CHOOSE i \in ok : \A j \in ok : i <= j
                 IN  /\ tempRet = 0
                     /\ tried = SubSeq(c, 1, k)
                     /\ ParentOf(status.temppath) = c[k]
                     /\ DirOf(status.temppath) \in created
                     /\ status.has_temp_directory = TRUE

\* TMPDIR is empty and skipped, TEMP and /tmp fail, /var/tmp succeeds.
C22_Witness ==
    /\ build = "linux"
    /\ nLookups = 1
    /\ opt_tmpdir = NULL
    /\ env["TMPDIR"] = EmptyStr
    /\ tried = << <<"/", "f">>, <<"/", "tmp">>, <<"/", "var", "/", "tmp">> >>
    /\ tempRet = 0
    /\ ParentOf(status.temppath) = <<"/", "var", "/", "tmp">>

\* C23: on Windows at most 5 creation attempts are made, each with a freshly
\* generated name; the operation succeeds at the first attempt whose mkdir
\* succeeds, and fails exactly when all 5 attempts fail.
C23_FiveAttempts ==
    (build = "win32" /\ nLookups = 1) =>
        LET a == tempCall.attempts
        IN  /\ Len(a) \in 1..5
            /\ \A i, j \in 1..Len(a) : i # j => a[i].name # a[j].name
            /\ \A i \in 1..(Len(a) - 1) : ~a[i].made
            /\ (tempRet = 0) = a[Len(a)].made
            /\ (tempRet = -1) = (Len(a) = 5 /\ \A i \in 1..5 : ~a[i].made)
            /\ tempRet = 0 => status.temppath = a[Len(a)].name
            /\ tempRet \in {0, -1}

\* Two names were taken by other processes first; the third attempt made the
\* directory.
C23_Witness ==
    /\ build = "win32"
    /\ nLookups = 1
    /\ Len(tempCall.attempts) = 3
    /\ tempCall.attempts[3].made
    /\ tempRet = 0
    /\ status.has_temp_directory = TRUE

\* C30: on Windows with the override present, TMP is changed only for the
\* duration of pyi_get_temp_path: on the success return and on the failure
\* return after 5 attempts alike, TMP has the value it had before, and is
\* absent when it was absent or empty before; no other variable is touched.
\* Without the override the environment is never written.
C30_TmpRestored ==
    (build = "win32" /\ nLookups = 1) =>
        LET prior == tempCall.before
        IN  IF opt_tmpdir # NULL
            THEN /\ tempCall.during = [prior EXCEPT !["TMP"] = pyi_path_fullpath(opt_tmpdir)]
                 /\ env = [prior EXCEPT !["TMP"] =
                              IF prior["TMP"] \in {NULL, EmptyStr} THEN NULL
                              ELSE prior["TMP"]]
                 /\ pyi_getenv(build, env, "TMP") = pyi_getenv(build, prior, "TMP")
            ELSE /\ tempCall.during = prior
                 /\ env = prior

\* All five attempts under the override failed and TMP is back to /g.
C30_Witness ==
    /\ build = "win32"
    /\ nLookups = 1
    /\ opt_tmpdir = <<"/", "o">>
    /\ tempCall.before["TMP"] = <<"/", "g">>
    /\ tempCall.during["TMP"] = <<"/", "o">>
    /\ env["TMP"] = <<"/", "g">>
    /\ Len(tempCall.attempts) = 5
    /\ tempRet = -1

\* C29: temppath is non-empty only if has_temp_directory is true: a failed
\* pyi_create_temp_path leaves temppath empty, so cleanUp and the stager act
\* on a scratch path only when a directory was created.
C29_TemppathOnlyWithDirectory ==
    status.temppath # EmptyStr => status.has_temp_directory = TRUE

\* Every POSIX candidate failed and temppath holds the last template.
C29_Witness ==
    /\ build = "linux"
    /\ nCalls = 1
    /\ tempRet = -1
    /\ status.has_temp_directory = FALSE
    /\ status.temppath = <<"/", "usr", "/", "tmp", "/", "_MEIXXXXXX">>
    /\ pyi_utils_set_environment(build, env, status)["LD_LIBRARY_PATH"] = status.temppath

\* C26: when pyi_copy_file returns 0 the destination's content equals the
\* source's, for every source length (0, less than a block, a multiple of
\* the block, a multiple plus a partial block); any read or write error
\* yields -1.
C26_CopyIsExact ==
    copy.pc = "done" =>
        /\ copy.ret = 0 => copy.out.data = copy.src
        /\ (copy.in.err \/ copy.writeFailed) => copy.ret = -1

\* A source of one full block came out as two blocks, with return value 0.
C26_Witness ==
    /\ copy.pc = "done"
    /\ copy.ret = 0
    /\ ~copy.in.err
    /\ Len(copy.src) = BlockSize
    /\ copy.out.data = copy.src \o copy.src

\* C24: on the windowed macOS build every open-document event is handled in
\* exactly one of two ways, chosen by child_pid: with child_pid 0 each path
\* of the event is appended to argv_pyi in the event's order, the vector
\* stays NULL-terminated and nothing is sent; with child_pid non-zero the
\* event is sent on to the child and argv_pyi is left as it was.  The paths
\* appended before the fork are all in the vector passed to exec.
C24_AppendOrForward ==
    [][ /\ (argv_pyi.queue # <<>> /\ argv_pyi'.queue = <<>>) =>
              LET ev == argv_pyi.queue[1]
                  n == argv_pyi.argc_pyi
              IN  IF child_pid = 0
                  THEN /\ argv_pyi'.argc_pyi = n + Len(ev)
                       /\ SubSeq(argv_pyi'.v, 1, n) = SubSeq(argv_pyi.v, 1, n)
                       /\ \A k \in 1..Len(ev) : argv_pyi'.v[n + k] = ev[k]
                       /\ argv_pyi'.v[n + Len(ev) + 1] = NULL
                       /\ argv_pyi'.sent = argv_pyi.sent
                  ELSE /\ argv_pyi'.sent = [pid |-> child_pid, docs |-> ev]
                       /\ argv_pyi'.v = argv_pyi.v
                       /\ argv_pyi'.argc_pyi = n
        /\ ppc' = "a_passed" =>
              \A k \in 1..Len(argv_pyi'.docs) :
                 argv_pyi'.docs[k] \in Range(argv_pyi'.passed)
      ]_vars

\* The path /f was fetched into a buffer that held other bytes, and the
\* entry passed to exec is the path followed by them.
C24_Witness ==
    /\ ppc = "a_passed"
    /\ argv_pyi.docs = << <<"/", "f">> >>
    /\ argv_pyi.passed[Len(argv_pyi.passed)] = <<"/", "f", "?", "?", "?">>

\* C25: in the wait loop of the windowed macOS build, once the child has
\* terminated the parent eventually reaps it and leaves the loop, whatever
\* the arrival pattern of the desktop's events.
C25_EventuallyReaps == (cpc = "exited") ~> (ppc = "a_done")

\* The child has ended and the parent, in process_apple_events, has one more
\* event to dispatch.
C25_Witness ==
    /\ ppc = "a_pump"
    /\ cpc = "exited"
    /\ argv_pyi.queue # <<>>
    /\ argv_pyi.sent # <<>>

\* With the desktop quiet from some point on, the parent does reap the child.
ReapsWhenQuiet ==
    (<>[](argv_pyi.queue = <<>>)) => ((cpc = "exited") ~> (ppc = "a_done"))

====
